---------------------------- MODULE Spec2Model ----------------------------
(***************************************************************************)
(* Fantasy-Baseball-In-Season-Analytics: the category strength analysis    *)
(* (src/analysis/category_analysis.py), the matchup and pitcher-start      *)
(* optimizer (src/analysis/matchup_analysis.py) and the player normalizer  *)
(* (src/data/processors.py), as state machines over the analyzers' fields. *)
(*                                                                         *)
(* Conventions.                                                            *)
(*  - A Python str that the code searches (column names, the positions     *)
(*    string, aliases) is a sequence of one-character strings, so that     *)
(*    "alias in col.lower()" and str.contains are computed, not assumed.   *)
(*    Names that are only compared as a whole are TLA+ strings.            *)
(*  - A Python dict is a sequence of [k, v] pairs in insertion order.      *)
(*  - None / absent is the empty sequence, a present value x is <<x>>.     *)
(*  - A float is an exact number [a, b, c, w] = (a + b/sqrt(w))/c with     *)
(*    c > 0; rationals have b = 0, w = 1.  NaN has c = 0.                  *)
(***************************************************************************)
EXTENDS Integers, Sequences, FiniteSets, TLC

(***************************************************************************)
(* Exact arithmetic                                                        *)
(***************************************************************************)
Abs(x) == IF x < 0 THEN -x ELSE x

Sgn(x) == IF x < 0 THEN -1 ELSE IF x > 0 THEN 1 ELSE 0

RECURSIVE GCD(_, _)
GCD(x, y) == IF y = 0 THEN x ELSE GCD(y, x % y)

NaN == [a |-> 0, b |-> 0, c |-> 0, w |-> 1]

IsNaN(x) == x.c = 0

Scaled(a, b, c, w, d) ==
    [a |-> a \div d, b |-> b \div d, c |-> c \div d, w |-> IF b = 0 THEN 1 ELSE w]

\* (a + b/sqrt(w))/c in lowest terms, c > 0
Norm(a, b, c, w) ==
    Scaled(a, b, c, w,
           (IF c < 0 THEN -1 ELSE 1) * GCD(GCD(Abs(a), Abs(b)), Abs(c)))

Rat(p, q) == Norm(p, 0, q, 1)

IntNum(n) == [a |-> n, b |-> 0, c |-> 1, w |-> 1]

IsRat(x) == x.c # 0 /\ x.b = 0

\* sign of r + p*sqrt(k), k >= 1
SurdSign(r, p, k) ==
    IF Sgn(r) = Sgn(p) \/ p = 0 THEN Sgn(r)
    ELSE IF r = 0 THEN Sgn(p)
    ELSE Sgn(r) * Sgn(r * r - p * p * k)

\* sign of p/sqrt(w1) - q/sqrt(w2), which is that of p*sqrt(w2) - q*sqrt(w1)
SurdDiffSign(p, w1, q, w2) ==
    IF p = 0 \/ q = 0 \/ w1 = w2 THEN Sgn(p - q)
    ELSE IF Sgn(p) # Sgn(q) THEN Sgn(p)
    ELSE Sgn(p) * Sgn(p * p * w2 - q * q * w1)

\* sA if d > 0, sr if d < 0, else 0
PickSign(d, sA, sr) == IF d > 0 THEN sA ELSE IF d < 0 THEN sr ELSE 0

\* sign of r + A, where A = p/sqrt(w1) - q/sqrt(w2) has sign sA
SignWith(r, p, w1, q, w2, sA) ==
    IF r = 0 THEN sA
    ELSE IF sA = 0 \/ sA = Sgn(r) THEN Sgn(r)
    ELSE IF p = 0 \/ q = 0 \/ w1 = w2
    THEN SurdSign(p - q, r, IF q = 0 THEN w1 ELSE w2)
    ELSE \* |A| against |r|: the sign of A^2 - r^2, times w1*w2
         PickSign(SurdSign(p * p * w2 + q * q * w1 - r * r * w1 * w2,
                           -2 * p * q, w1 * w2),
                  sA, Sgn(r))

\* the same with r, p, q divided by their common divisor g
SignScaled(r, p, w1, q, w2, g) ==
    IF g = 0 THEN 0
    ELSE SignWith(r \div g, p \div g, w1, q \div g, w2,
                  SurdDiffSign(p, w1, q, w2))

\* sign of r + p/sqrt(w1) - q/sqrt(w2)
SignOf3(r, p, w1, q, w2) ==
    SignScaled(r, p, w1, q, w2, GCD(GCD(Abs(r), Abs(p)), Abs(q)))

\* sign of x - y for two numbers that are not NaN
Cmp(x, y) ==
    SignOf3(x.a * y.c - y.a * x.c, x.b * y.c, x.w, y.b * x.c, y.w)

\* Python's comparisons: every comparison with NaN is False
Lt(x, y) == ~IsNaN(x) /\ ~IsNaN(y) /\ Cmp(x, y) < 0

Gt(x, y) == Lt(y, x)

Ge(x, y) == ~IsNaN(x) /\ ~IsNaN(y) /\ Cmp(x, y) >= 0

Le(x, y) == Ge(y, x)

NumEq(x, y) == ~IsNaN(x) /\ ~IsNaN(y) /\ Cmp(x, y) = 0

\* x + y for two rationals, a rational and a surd, or two surds over the
\* same root (NaN propagates)
Add(x, y) ==
    IF IsNaN(x) \/ IsNaN(y) \/ (x.b # 0 /\ y.b # 0 /\ x.w # y.w) THEN NaN
    ELSE Norm(x.a * y.c + y.a * x.c, x.b * y.c + y.b * x.c, x.c * y.c,
              IF x.b # 0 THEN x.w ELSE y.w)

Neg(x) == IF IsNaN(x) THEN NaN ELSE [x EXCEPT !.a = -x.a, !.b = -x.b]

Sub(x, y) == Add(x, Neg(y))

\* x * y where x or y is rational
Mul(x, y) ==
    IF IsNaN(x) \/ IsNaN(y) \/ (x.b # 0 /\ y.b # 0) THEN NaN
    ELSE Norm(x.a * y.a, x.b * y.a + y.b * x.a, x.c * y.c,
              IF x.b # 0 THEN x.w ELSE y.w)

\* x / y where y # 0 is rational, or x is rational and y is a pure surd
\* b/(c*sqrt(w)), for which x/y = x*c*w / (b*sqrt(w))
Div(x, y) ==
    IF IsNaN(x) \/ IsNaN(y) \/ (y.b # 0 /\ (y.a # 0 \/ x.b # 0)) THEN NaN
    ELSE Norm(IF y.b = 0 THEN x.a * y.c ELSE 0,
              IF y.b = 0 THEN x.b * y.c ELSE x.a * y.c * y.w,
              IF y.b = 0 THEN x.c * y.a ELSE x.c * y.b,
              IF y.b = 0 THEN x.w ELSE y.w)

RECURSIVE ISqrt(_, _)
ISqrt(n, k) == IF k * k >= n THEN k ELSE ISqrt(n, k + 1)

RECURSIVE SquarePart(_, _)
\* the largest s <= k whose square divides m
SquarePart(m, k) == IF m % (k * k) = 0 THEN k ELSE SquarePart(m, k - 1)

\* n/sqrt(m) as n/(s*sqrt(m/s^2)), given the square part s of m
SqrtReduced(n, m, s) == Norm(0, n, s, m \div (s * s))

\* sqrt(q) for q = n/d, given r = ISqrt(n*d): r/d if n*d is a square,
\* else n/sqrt(n*d)
SqrtWith(n, d, r) ==
    IF r * r = n * d THEN Rat(r, d) ELSE SqrtReduced(n, n * d, SquarePart(n * d, r))

\* sqrt(n/d) for integers n >= 0, d > 0
Sqrt(n, d) == IF n = 0 THEN IntNum(0) ELSE SqrtWith(n, d, ISqrt(n * d, 0))

RECURSIVE SumNum(_)
SumNum(s) == IF s = <<>> THEN IntNum(0) ELSE Add(Head(s), SumNum(Tail(s)))

(***************************************************************************)
(* Sequences and dicts                                                     *)
(***************************************************************************)
Range(s) == {s[i] : i \in DOMAIN s}

Take(s, n) == SubSeq(s, 1, IF n < Len(s) THEN n ELSE Len(s))

Drop(s, n) == SubSeq(s, n + 1, Len(s))

RECURSIVE DictKeys(_)
DictKeys(d) == IF d = <<>> THEN <<>> ELSE <<d[1].k>> \o DictKeys(Tail(d))

DictHas(d, key) == \E i \in DOMAIN d : d[i].k = key

DictGet(d, key) == d[CHOOSE i \in DOMAIN d : d[i].k = key].v

\* d[key] = val: an existing key keeps its place
DictSet(d, key, val) ==
    IF DictHas(d, key)
    THEN [i \in DOMAIN d |-> IF d[i].k = key THEN [k |-> key, v |-> val] ELSE d[i]]
    ELSE Append(d, [k |-> key, v |-> val])

(***************************************************************************)
(* Strings as character sequences                                          *)
(***************************************************************************)
UpperToLower ==
    [A |-> "a", B |-> "b", C |-> "c", D |-> "d", E |-> "e", F |-> "f", G |-> "g", H |-> "h", I |-> "i", J |-> "j", K |-> "k", L |-> "l", M |-> "m", N |-> "n", O |-> "o", P |-> "p", Q |-> "q", R |-> "r", S |-> "s", T |-> "t", U |-> "u", V |-> "v", W |-> "w", X |-> "x", Y |-> "y", Z |-> "z"]

\* str.lower(), character by character
RECURSIVE Lower(_)
Lower(s) ==
    IF s = <<>> THEN <<>>
    ELSE <<IF s[1] \in DOMAIN UpperToLower THEN UpperToLower[s[1]] ELSE s[1]>>
         \o Lower(Tail(s))

\* Python's "sub in s"
Contains(sub, s) ==
    \E i \in 0..(Len(s) - Len(sub)) : \A j \in 1..Len(sub) : s[i + j] = sub[j]

\* pandas Series.str.contains(pat, case=False) for a pattern without
\* regular-expression metacharacters
ContainsCI(pat, s) == Contains(Lower(pat), Lower(s))

RECURSIVE Join(_, _)
\* sep.join(parts)
Join(sep, parts) ==
    IF parts = <<>> THEN <<>>
    ELSE IF Len(parts) = 1 THEN parts[1]
    ELSE parts[1] \o sep \o Join(sep, Tail(parts))

COL_player_id == <<"p", "l", "a", "y", "e", "r", "_", "i", "d">>

COL_name == <<"n", "a", "m", "e">>

COL_team == <<"t", "e", "a", "m">>

COL_positions == <<"p", "o", "s", "i", "t", "i", "o", "n", "s">>

STR_projected_points ==
    <<"p", "r", "o", "j", "e", "c", "t", "e", "d", "_", "p", "o", "i", "n", "t", "s">>

STR_projected == <<"p", "r", "o", "j", "e", "c", "t", "e", "d">>

SP == <<"S", "P">>

RP == <<"R", "P">>

(***************************************************************************)
(* src/data/processors.py: PlayerDataProcessor                             *)
(*                                                                         *)
(* A Player is [playerId, name, proTeam, eligibleSlots, stats]; stats is a *)
(* dict scope -> [kind, val, items] where kind is "dict" (items is a dict  *)
(* stat name -> [kind, val]), "scalar" (val) or "list".  stats = <<>>      *)
(* stands for both None and {}.                                            *)
(***************************************************************************)
Scalar(n) == [kind |-> "scalar", val |-> IntNum(n), items |-> <<>>]

Nested == [kind |-> "list", val |-> NaN, items |-> <<>>]

StatDict(items) == [kind |-> "dict", val |-> NaN, items |-> items]

RECURSIVE FlattenItems(_, _, _)
\* the inner loop over stat_values.items()
FlattenItems(player_dict, stat_type, items) ==
    IF items = <<>> THEN player_dict
    ELSE LET stat_name  == items[1].k
             stat_value == items[1].v
             stat_key   == stat_type \o <<"_">> \o stat_name
         IN  FlattenItems(
                 IF stat_value.kind = "scalar"
                 THEN DictSet(player_dict, stat_key, stat_value.val)
                 ELSE player_dict,
                 stat_type, Tail(items))

RECURSIVE FlattenStats(_, _)
\* the loop over stats.items()
FlattenStats(player_dict, stats) ==
    IF stats = <<>> THEN player_dict
    ELSE LET stat_type   == stats[1].k
             stat_values == stats[1].v
         IN  FlattenStats(
                 IF stat_values.kind = "dict"
                 THEN FlattenItems(player_dict, stat_type, stat_values.items)
                 ELSE IF stat_values.kind = "scalar"
                 THEN DictSet(player_dict, stat_type, stat_values.val)
                 ELSE player_dict,
                 Tail(stats))

\* one player's row before it enters the DataFrame
PlayerDict(player) ==
    FlattenStats(
        << [k |-> COL_player_id, v |-> IntNum(player.playerId)],
           [k |-> COL_name,      v |-> player.name],
           [k |-> COL_team,      v |-> player.proTeam],
           [k |-> COL_positions, v |-> Join(<<",", " ">>, player.eligibleSlots)] >>,
        player.stats)

RECURSIVE UnionColumns(_, _)
\* pandas.DataFrame(list of dicts): the columns are the keys in order of
\* first appearance
UnionColumns(cols, player_data) ==
    IF player_data = <<>> THEN cols
    ELSE LET keys == DictKeys(player_data[1])
             new  == SelectSeq(keys, LAMBDA key : key \notin Range(cols))
         IN  UnionColumns(cols \o new, Tail(player_data))

RECURSIVE CompleteRow(_, _)
\* one row of the DataFrame: a dict with every column, NaN where the
\* player's dict has no such key
CompleteRow(columns, player_dict) ==
    IF columns = <<>> THEN <<>>
    ELSE << [k |-> columns[1],
             v |-> IF DictHas(player_dict, columns[1])
                   THEN DictGet(player_dict, columns[1]) ELSE NaN] >>
         \o CompleteRow(Tail(columns), player_dict)

RECURSIVE PlayerDicts(_)
PlayerDicts(players) ==
    IF players = <<>> THEN <<>>
    ELSE <<PlayerDict(players[1])>> \o PlayerDicts(Tail(players))

RECURSIVE CompleteRows(_, _)
CompleteRows(columns, player_data) ==
    IF player_data = <<>> THEN <<>>
    ELSE <<CompleteRow(columns, player_data[1])>>
         \o CompleteRows(columns, Tail(player_data))

\* a DataFrame is [columns, rows]
players_to_dataframe(players) ==
    LET player_data == PlayerDicts(players)
        columns     == UnionColumns(<<>>, player_data)
    IN  [columns |-> columns, rows |-> CompleteRows(columns, player_data)]

\* row[col]
Cell(row, col) == DictGet(row, col)

\* df.empty
Empty(df) == df.rows = <<>> \/ df.columns = <<>>

\* df[mask]: the rows that satisfy Keep, same columns
FilterRows(df, Keep(_)) ==
    [columns |-> df.columns, rows |-> SelectSeq(df.rows, Keep)]

\* df['positions'].str.contains('SP|RP', case=False)
IsPitcherRow(row) ==
    LET pos == Lower(Cell(row, COL_positions))
    IN  Contains(Lower(SP), pos) \/ Contains(Lower(RP), pos)

Pitchers(df) == FilterRows(df, IsPitcherRow)

\* Batters with every player of an outfield slot, pitchers among them
Hitters(df) ==
    FilterRows(df, LAMBDA row : Contains(<<"O", "F">>, Cell(row, COL_positions))
                                    \/ ~IsPitcherRow(row))

Batters(df) == FilterRows(df, LAMBDA row : ~IsPitcherRow(row))

RECURSIVE ColValues(_, _)
\* the non-NaN cells of a column, in row order
ColValues(rows, col) ==
    IF rows = <<>> THEN <<>>
    ELSE LET x == Cell(rows[1], col)
         IN  (IF IsNaN(x) THEN <<>> ELSE <<x>>) \o ColValues(Tail(rows), col)

\* Series.sum(): NaN cells are skipped, an all-NaN column sums to 0
ColSum(df, col) == SumNum(ColValues(df.rows, col))

\* Series.mean(): NaN cells are skipped, an all-NaN column has mean NaN
ColMean(df, col) ==
    LET vals == ColValues(df.rows, col)
    IN  IF vals = <<>> THEN NaN ELSE Div(SumNum(vals), IntNum(Len(vals)))

(***************************************************************************)
(* src/analysis/category_analysis.py: the category catalog                 *)
(***************************************************************************)
batting_cats == <<
    [name |-> "AVG", aliases |-> <<<<"a", "v", "g">>,
        <<"b", "a", "t", "t", "i", "n", "g", "_", "a", "v", "g">>,
        <<"b", "a">>>>],
    [name |-> "HR", aliases |-> <<<<"h", "r">>,
        <<"h", "o", "m", "e", "_", "r", "u", "n", "s">>,
        <<"h", "r", "s">>>>],
    [name |-> "R", aliases |-> <<<<"r">>,
        <<"r", "u", "n", "s">>,
        <<"r", "u", "n">>>>],
    [name |-> "RBI", aliases |-> <<<<"r", "b", "i">>,
        <<"r", "b", "i", "s">>,
        <<"r", "u", "n", "s", "_", "b", "a", "t", "t", "e", "d", "_", "i", "n">>>>],
    [name |-> "SB", aliases |-> <<<<"s", "b">>,
        <<"s", "t", "o", "l", "e", "n", "_", "b", "a", "s", "e", "s">>,
        <<"s", "t", "e", "a", "l", "s">>>>],
    [name |-> "OBP", aliases |-> <<<<"o", "b", "p">>,
        <<"o", "n", "_", "b", "a", "s", "e", "_", "p", "c", "t">>,
        <<"o", "n", "_", "b", "a", "s", "e", "_", "p", "e", "r", "c", "e", "n", "t", "a", "g", "e">>>>],
    [name |-> "SLG", aliases |-> <<<<"s", "l", "g">>,
        <<"s", "l", "u", "g", "g", "i", "n", "g">>,
        <<"s", "l", "u", "g", "g", "i", "n", "g", "_", "p", "c", "t">>>>],
    [name |-> "OPS", aliases |-> <<<<"o", "p", "s">>,
        <<"o", "n", "_", "b", "a", "s", "e", "_", "p", "l", "u", "s", "_", "s", "l", "u", "g", "g", "i", "n", "g">>>>],
    [name |-> "TB", aliases |-> <<<<"t", "b">>,
        <<"t", "o", "t", "a", "l", "_", "b", "a", "s", "e", "s">>>>],
    [name |-> "H", aliases |-> <<<<"h">>,
        <<"h", "i", "t", "s">>,
        <<"h", "i", "t">>>>],
    [name |-> "2B", aliases |-> <<<<"2", "b">>,
        <<"d", "o", "u", "b", "l", "e", "s">>,
        <<"d", "o", "u", "b", "l", "e">>>>],
    [name |-> "3B", aliases |-> <<<<"3", "b">>,
        <<"t", "r", "i", "p", "l", "e", "s">>,
        <<"t", "r", "i", "p", "l", "e">>>>],
    [name |-> "BB", aliases |-> <<<<"b", "b">>,
        <<"w", "a", "l", "k", "s">>,
        <<"w", "a", "l", "k">>>>],
    [name |-> "XBH", aliases |-> <<<<"x", "b", "h">>,
        <<"e", "x", "t", "r", "a", "_", "b", "a", "s", "e", "_", "h", "i", "t", "s">>>>],
    [name |-> "PA", aliases |-> <<<<"p", "a">>,
        <<"p", "l", "a", "t", "e", "_", "a", "p", "p", "e", "a", "r", "a", "n", "c", "e", "s">>>>],
    [name |-> "AB", aliases |-> <<<<"a", "b">>,
        <<"a", "t", "_", "b", "a", "t", "s">>>>]
    >>

pitching_cats == <<
    [name |-> "ERA", aliases |-> <<<<"e", "r", "a">>,
        <<"e", "a", "r", "n", "e", "d", "_", "r", "u", "n", "_", "a", "v", "g">>,
        <<"e", "a", "r", "n", "e", "d", "_", "r", "u", "n", "_", "a", "v", "e", "r", "a", "g", "e">>>>],
    [name |-> "WHIP", aliases |-> <<<<"w", "h", "i", "p">>,
        <<"w", "a", "l", "k", "s", "_", "h", "i", "t", "s", "_", "p", "e", "r", "_", "i", "p">>>>],
    [name |-> "W", aliases |-> <<<<"w">>,
        <<"w", "i", "n", "s">>,
        <<"w", "i", "n">>>>],
    [name |-> "SV", aliases |-> <<<<"s", "v">>,
        <<"s", "a", "v", "e", "s">>,
        <<"s", "a", "v", "e">>>>],
    [name |-> "K", aliases |-> <<<<"k">>,
        <<"s", "o">>,
        <<"s", "t", "r", "i", "k", "e", "o", "u", "t", "s">>,
        <<"s", "t", "r", "i", "k", "e", "o", "u", "t">>>>],
    [name |-> "HLD", aliases |-> <<<<"h", "l", "d">>,
        <<"h", "o", "l", "d", "s">>,
        <<"h", "o", "l", "d">>>>],
    [name |-> "QS", aliases |-> <<<<"q", "s">>,
        <<"q", "u", "a", "l", "i", "t", "y", "_", "s", "t", "a", "r", "t", "s">>>>],
    [name |-> "IP", aliases |-> <<<<"i", "p">>,
        <<"i", "n", "n", "i", "n", "g", "s", "_", "p", "i", "t", "c", "h", "e", "d">>>>],
    [name |-> "K/9", aliases |-> <<<<"k", "/", "9">>,
        <<"k", "_", "p", "e", "r", "_", "9">>,
        <<"s", "t", "r", "i", "k", "e", "o", "u", "t", "s", "_", "p", "e", "r", "_", "9">>>>],
    [name |-> "BB/9", aliases |-> <<<<"b", "b", "/", "9">>,
        <<"b", "b", "_", "p", "e", "r", "_", "9">>,
        <<"w", "a", "l", "k", "s", "_", "p", "e", "r", "_", "9">>>>],
    [name |-> "K/BB", aliases |-> <<<<"k", "/", "b", "b">>,
        <<"k", "_", "p", "e", "r", "_", "b", "b">>,
        <<"s", "t", "r", "i", "k", "e", "o", "u", "t", "_", "t", "o", "_", "w", "a", "l", "k">>>>],
    [name |-> "SVH", aliases |-> <<<<"s", "v", "h">>,
        <<"s", "a", "v", "e", "s", "_", "p", "l", "u", "s", "_", "h", "o", "l", "d", "s">>>>]
    >>

(***************************************************************************)
(* src/analysis/category_analysis.py: CategoryAnalyzer                     *)
(*                                                                         *)
(* A Team is [team_id, name, roster]; roster = <<>> stands for both None   *)
(* and [] (the code tests "if team.roster").                               *)
(***************************************************************************)
VARIABLES
    teams,          \* self.teams
    team_dfs,       \* self.team_dfs: dict team_id -> DataFrame
    league_stats,   \* self.league_stats: {} or dict type -> dict category -> stats
    categories,     \* self.categories: {} or dict type -> dict category -> column
    result,         \* what the last call returned (<<>> before any call)
    last_call,      \* [op, team_id, free_agents] of the last call
    repeated        \* the last call was analyze_team_categories and repeated
                    \* the call before it

ca_vars == <<teams, team_dfs, league_stats, categories, result, last_call, repeated>>

RateStats == {"ERA", "WHIP", "K/9", "BB/9", "K/BB"}

LowerIsBetter == {"ERA", "WHIP", "BB/9"}

RECURSIVE BuildTeamDfs(_, _)
\* _process_teams: the loop that fills self.team_dfs
BuildTeamDfs(dfs, ts) ==
    IF ts = <<>> THEN dfs
    ELSE BuildTeamDfs(
             IF ts[1].roster # <<>>
             THEN DictSet(dfs, ts[1].team_id, players_to_dataframe(ts[1].roster))
             ELSE dfs,
             Tail(ts))

RECURSIVE LowerAll(_)
\* col.lower() for every column
LowerAll(columns) ==
    IF columns = <<>> THEN <<>> ELSE <<Lower(columns[1])>> \o LowerAll(Tail(columns))

\* matching_cols[0] of [col for col in columns if alias in col.lower()], as
\* <<col>>, or <<>> when no column matches; lowered is LowerAll(columns)
FirstMatch(alias, columns, lowered) ==
    LET hits == {i \in DOMAIN columns : Contains(alias, lowered[i])}
    IN  IF hits = {} THEN <<>>
        ELSE <<columns[CHOOSE i \in hits : \A j \in hits : i <= j]>>

RECURSIVE ResolveAliases(_, _, _)
\* the column of the first alias that matches any column; <<>> if none does
ResolveAliases(aliases, columns, lowered) ==
    IF aliases = <<>> THEN <<>>
    ELSE LET m == FirstMatch(aliases[1], columns, lowered)
         IN  IF m # <<>> THEN m ELSE ResolveAliases(Tail(aliases), columns, lowered)

RECURSIVE RegisterCategories(_, _, _, _)
RegisterCategories(registry, cats, columns, lowered) ==
    IF cats = <<>> THEN registry
    ELSE LET col == ResolveAliases(cats[1].aliases, columns, lowered)
         IN  RegisterCategories(
                 IF col # <<>> THEN DictSet(registry, cats[1].name, col[1])
                 ELSE registry,
                 Tail(cats), columns, lowered)

\* the value self.categories has after _identify_categories
_identify_categories(ts, dfs) ==
    IF ts = <<>> \/ dfs = <<>>
    THEN << [k |-> "batting", v |-> <<>>], [k |-> "pitching", v |-> <<>>] >>
    ELSE LET first_team_df == dfs[1].v
             lowered       == LowerAll(first_team_df.columns)
         IN  << [k |-> "batting",
                 v |-> RegisterCategories(<<>>, batting_cats,
                                          first_team_df.columns, lowered)],
                [k |-> "pitching",
                 v |-> RegisterCategories(<<>>, pitching_cats,
                                          first_team_df.columns, lowered)] >>

\* one team's aggregate in a category: the sum over its batters; over its
\* pitchers the mean for rate statistics and the sum otherwise
TeamValue(type, cat_name, sub_df, col_name) ==
    IF type = "pitching" /\ cat_name \in RateStats
    THEN ColMean(sub_df, col_name)
    ELSE ColSum(sub_df, col_name)

SubRoster(type, df) == IF type = "batting" THEN Batters(df) ELSE Pitchers(df)

\* what one team contributes to the list "values" of a category, given its
\* batters or pitchers sub_df: nothing without the column or without players
TeamEntry(type, cat_name, col_name, columns, sub_df) ==
    IF col_name \in Range(columns) /\ ~Empty(sub_df)
    THEN <<TeamValue(type, cat_name, sub_df, col_name)>>
    ELSE <<>>

RECURSIVE CollectValues(_, _, _, _)
\* the list "values" of one category: one entry per team whose table has the
\* column and whose sub-roster is not empty
CollectValues(type, cat_name, col_name, dfs) ==
    IF dfs = <<>> THEN <<>>
    ELSE TeamEntry(type, cat_name, col_name, dfs[1].v.columns,
                   SubRoster(type, dfs[1].v))
         \o CollectValues(type, cat_name, col_name, Tail(dfs))

RECURSIVE InsertSorted(_, _)
InsertSorted(x, s) ==
    IF s = <<>> THEN <<x>>
    ELSE IF Le(x, s[1]) THEN <<x>> \o s
    ELSE <<s[1]>> \o InsertSorted(x, Tail(s))

RECURSIVE SortNums(_)
SortNums(s) == IF s = <<>> THEN <<>> ELSE InsertSorted(s[1], SortNums(Tail(s)))

HasNaN(values) == \E i \in DOMAIN values : IsNaN(values[i])

\* numpy.mean, numpy.median, numpy.std (population), numpy.min, numpy.max of
\* a non-empty list; each is NaN as soon as one value is NaN
NpMean(values) == Div(SumNum(values), IntNum(Len(values)))

\* the median of a sorted list
MedianOfSorted(s) ==
    IF Len(s) % 2 = 1 THEN s[(Len(s) + 1) \div 2]
    ELSE Div(Add(s[Len(s) \div 2], s[Len(s) \div 2 + 1]), IntNum(2))

NpMedian(values) ==
    IF HasNaN(values) THEN NaN ELSE MedianOfSorted(SortNums(values))

Square(d) == Mul(d, d)

RECURSIVE SquaredDeviations(_, _)
SquaredDeviations(values, m) ==
    IF values = <<>> THEN <<>>
    ELSE <<Square(Sub(values[1], m))>> \o SquaredDeviations(Tail(values), m)

\* the square root of a non-negative rational
SqrtOf(q) == Sqrt(q.a, q.c)

NpStd(values) ==
    IF HasNaN(values) THEN NaN
    ELSE SqrtOf(NpMean(SquaredDeviations(values, NpMean(values))))

NpMin(values) ==
    IF HasNaN(values) THEN NaN ELSE SortNums(values)[1]

NpMax(values) ==
    IF HasNaN(values) THEN NaN ELSE SortNums(values)[Len(values)]

StatsOf(values) ==
    [mean |-> NpMean(values), median |-> NpMedian(values), std |-> NpStd(values),
     min |-> NpMin(values), max |-> NpMax(values)]

\* league_stats[type][cat_name] is set only "if values"
WithStats(acc, cat_name, values) ==
    IF values # <<>> THEN DictSet(acc, cat_name, StatsOf(values)) ELSE acc

RECURSIVE BaselineOf(_, _, _, _)
\* league_stats[type]: the categories of the registry that have values
BaselineOf(acc, type, registry, dfs) ==
    IF registry = <<>> THEN acc
    ELSE BaselineOf(
             WithStats(acc, registry[1].k,
                       CollectValues(type, registry[1].k, registry[1].v, dfs)),
             type, Tail(registry), dfs)

\* the value self.league_stats has after _calculate_league_stats; old is its
\* value before the call
_calculate_league_stats(ts, dfs, cats, old) ==
    IF ts = <<>> \/ dfs = <<>> \/ cats = <<>> THEN old
    ELSE << [k |-> "batting",
             v |-> BaselineOf(<<>>, "batting", DictGet(cats, "batting"), dfs)],
            [k |-> "pitching",
             v |-> BaselineOf(<<>>, "pitching", DictGet(cats, "pitching"), dfs)] >>

\* Python's max(x, 0) and min(x, 1): the second argument wins only when it
\* compares strictly greater (smaller), so NaN passes through
PyMax(x, y) == IF Gt(y, x) THEN y ELSE x

PyMin(x, y) == IF Lt(y, x) THEN y ELSE x

\* z_score without the negation for ERA, WHIP and BB/9
z_score_uninverted(type, cat_name, team_value, stats) ==
    IF Gt(stats.std, IntNum(0))
    THEN Div(Sub(team_value, stats.mean), stats.std)
    ELSE IntNum(0)

\* z_score without the "std > 0" guard: numpy's 0.0 / 0.0 is nan
z_score_unguarded(type, cat_name, team_value, stats) ==
    IF IsNaN(stats.std) \/ NumEq(stats.std, IntNum(0)) THEN NaN
    ELSE IF type = "pitching" /\ cat_name \in LowerIsBetter
    THEN Div(Mul(IntNum(-1), Sub(team_value, stats.mean)), stats.std)
    ELSE Div(Sub(team_value, stats.mean), stats.std)

\* the z-score of a team value against a category's league stats
z_score(type, cat_name, team_value, stats) ==
    IF Gt(stats.std, IntNum(0))
    THEN IF type = "pitching" /\ cat_name \in LowerIsBetter
         THEN Div(Mul(IntNum(-1), Sub(team_value, stats.mean)), stats.std)
         ELSE Div(Sub(team_value, stats.mean), stats.std)
    ELSE IntNum(0)

\* percentile without the clamp to [0, 1]
percentile_unclamped(z) == Mul(Div(Add(z, IntNum(3)), IntNum(6)), IntNum(100))

\* percentile = min(max((z_score + 3) / 6, 0), 1) * 100
percentile(z) ==
    Mul(PyMin(PyMax(Div(Add(z, IntNum(3)), IntNum(6)), IntNum(0)), IntNum(1)),
        IntNum(100))

\* the if/elif chain with > in place of >=
strength_exclusive(p) ==
    IF Gt(p, IntNum(80)) THEN "Very Strong"
    ELSE IF Gt(p, IntNum(60)) THEN "Strong"
    ELSE IF Gt(p, IntNum(40)) THEN "Average"
    ELSE IF Gt(p, IntNum(20)) THEN "Weak"
    ELSE "Very Weak"

\* the if/elif chain over the percentile
strength(p) ==
    IF Ge(p, IntNum(80)) THEN "Very Strong"
    ELSE IF Ge(p, IntNum(60)) THEN "Strong"
    ELSE IF Ge(p, IntNum(40)) THEN "Average"
    ELSE IF Ge(p, IntNum(20)) THEN "Weak"
    ELSE "Very Weak"

\* the record stored under result["categories"][type][cat_name]
EntryOf(team_value, stats, z, p) ==
    [value |-> team_value, league_mean |-> stats.mean,
     league_median |-> stats.median, z_score |-> z, percentile |-> p,
     strength |-> strength(p)]

EntryWithZ(team_value, stats, z) == EntryOf(team_value, stats, z, percentile(z))

CategoryEntry(type, cat_name, team_value, stats) ==
    EntryWithZ(team_value, stats, z_score(type, cat_name, team_value, stats))

\* WithEntry with the sum of the column as the team value of every category
WithEntrySummed(acc, type, cat_name, col_name, columns, sub_df, type_stats) ==
    IF col_name \in Range(columns) /\ DictHas(type_stats, cat_name) /\ ~Empty(sub_df)
    THEN DictSet(acc, cat_name,
                 CategoryEntry(type, cat_name, ColSum(sub_df, col_name),
                               DictGet(type_stats, cat_name)))
    ELSE acc

\* one iteration: the category gets an entry if the team's table has the
\* column, the baseline has the category and the sub-roster sub_df is not empty
WithEntry(acc, type, cat_name, col_name, columns, sub_df, type_stats) ==
    IF col_name \in Range(columns) /\ DictHas(type_stats, cat_name) /\ ~Empty(sub_df)
    THEN DictSet(acc, cat_name,
                 CategoryEntry(type, cat_name,
                               TeamValue(type, cat_name, sub_df, col_name),
                               DictGet(type_stats, cat_name)))
    ELSE acc

RECURSIVE AnalyzeType(_, _, _, _, _)
\* one of the two loops of analyze_team_categories over self.categories[type]
AnalyzeType(acc, type, registry, team_df, type_stats) ==
    IF registry = <<>> THEN acc
    ELSE AnalyzeType(
             WithEntry(acc, type, registry[1].k, registry[1].v, team_df.columns,
                       SubRoster(type, team_df), type_stats),
             type, Tail(registry), team_df, type_stats)

\* the category names of one type with a tier in tiers, in dict order
TierNames(entries, tiers) ==
    DictKeys(SelectSeq(entries, LAMBDA e : e.v.strength \in tiers))

\* _identify_strengths keeping only the Very Strong categories
identify_very_strong(cats) ==
    [batting  |-> TierNames(cats.batting, {"Very Strong"}),
     pitching |-> TierNames(cats.pitching, {"Very Strong"})]

_identify_strengths(cats) ==
    [batting  |-> TierNames(cats.batting, {"Strong", "Very Strong"}),
     pitching |-> TierNames(cats.pitching, {"Strong", "Very Strong"})]

_identify_weaknesses(cats) ==
    [batting  |-> TierNames(cats.batting, {"Weak", "Very Weak"}),
     pitching |-> TierNames(cats.pitching, {"Weak", "Very Weak"})]

IsError(r) == "error" \in DOMAIN r

IsRaise(r) == "exception" \in DOMAIN r

\* the success record of analyze_team_categories
AnalysisResult(team_id, team_name, cs) ==
    [team_id    |-> team_id,
     team_name  |-> team_name,
     categories |-> cs,
     strengths  |-> _identify_strengths(cs),
     weaknesses |-> _identify_weaknesses(cs)]

\* the analysis of the team found in self.teams
AnalysisFound(team_id, found, team_df, cats, baseline) ==
    IF found = <<>> THEN [error |-> "Team not found"]
    ELSE AnalysisResult(team_id, found[1].name,
             [batting  |-> AnalyzeType(<<>>, "batting", DictGet(cats, "batting"),
                                       team_df, DictGet(baseline, "batting")),
              pitching |-> AnalyzeType(<<>>, "pitching", DictGet(cats, "pitching"),
                                       team_df, DictGet(baseline, "pitching"))])

\* what analyze_team_categories(team_id) returns on the analyzer state
\* (ts, dfs, cats, baseline)
AnalysisOf(ts, dfs, cats, baseline, team_id) ==
    IF ts = <<>> \/ ~DictHas(dfs, team_id) \/ cats = <<>>
    THEN [error |-> "Team data not available"]
    ELSE AnalysisFound(team_id, SelectSeq(ts, LAMBDA t : t.team_id = team_id),
                       DictGet(dfs, team_id), cats, baseline)

analyze_team_categories(team_id) ==
    AnalysisOf(teams, team_dfs, categories, league_stats, team_id)

\* the static strategy tables of recommend_category_improvements
batting_strategies == <<
    [k |-> "AVG",
     v |-> "Target high-contact hitters with good plate discipline"],
    [k |-> "HR",
     v |-> "Add power hitters, even if they have lower batting averages"],
    [k |-> "R",
     v |-> "Target high-OBP players and those hitting at the top of strong lineups"],
    [k |-> "RBI",
     v |-> "Look for sluggers and players hitting in the middle of the order"],
    [k |-> "SB",
     v |-> "Add speedsters and top-of-order hitters, even with less power"],
    [k |-> "OBP",
     v |-> "Prioritize players with good walk rates and plate discipline"],
    [k |-> "SLG",
     v |-> "Focus on power hitters with extra-base hit ability"],
    [k |-> "OPS",
     v |-> "Balance power and on-base skills in your hitting acquisitions"],
    [k |-> "TB",
     v |-> "Target players with extra-base hit power and consistent playing time"],
    [k |-> "H",
     v |-> "Add players with high batting averages and consistent playing time"],
    [k |-> "2B",
     v |-> "Look for gap hitters, especially those in parks with deep outfields"],
    [k |-> "3B",
     v |-> "Rare category; target speedsters in parks with large outfields"],
    [k |-> "BB",
     v |-> "Focus on patient hitters with good plate discipline"],
    [k |-> "XBH",
     v |-> "Add players with gap power and good ballparks for extra-base hits"]
    >>

pitching_strategies == <<
    [k |-> "ERA",
     v |-> "Target pitchers with good underlying skills (high K%, low BB%, groundball tendencies)"],
    [k |-> "WHIP",
     v |-> "Prioritize control pitchers with low walk rates"],
    [k |-> "W",
     v |-> "Focus on starters on good teams with high strikeout ability"],
    [k |-> "SV",
     v |-> "Add established closers, especially on winning teams"],
    [k |-> "K",
     v |-> "Target high-strikeout pitchers, even with slightly higher ratios"],
    [k |-> "HLD",
     v |-> "Add setup men on good teams with high strikeout rates"],
    [k |-> "QS",
     v |-> "Look for durable starters who pitch deep into games"],
    [k |-> "IP",
     v |-> "Maximize your innings with efficient starters"],
    [k |-> "K/9",
     v |-> "Focus on high-strikeout pitchers, even in shorter outings"],
    [k |-> "BB/9",
     v |-> "Target control specialists with proven command"],
    [k |-> "K/BB",
     v |-> "Balance strikeout ability with control in your pitching staff"],
    [k |-> "SVH",
     v |-> "Add both closers and high-quality setup men"]
    >>

Strategies(type) == IF type = "batting" THEN batting_strategies ELSE pitching_strategies

RECURSIVE StrategiesFor(_, _)
\* improvement_strategies[type]: one entry per weak category that the table knows
StrategiesFor(type, weak) ==
    IF weak = <<>> THEN <<>>
    ELSE (IF DictHas(Strategies(type), weak[1])
          THEN << [k |-> weak[1], v |-> DictGet(Strategies(type), weak[1])] >>
          ELSE <<>>)
         \o StrategiesFor(type, Tail(weak))

RECURSIVE Perms(_)
Perms(S) ==
    IF S = {} THEN { <<>> }
    ELSE UNION { { <<x>> \o p : p \in Perms(S \ {x}) } : x \in S }

\* DataFrame.sort_values(col, ascending): the orders of the rows that are
\* sorted by the column with NaN last.  The default sort (quicksort) is not
\* stable, so rows with equal keys may come out in any order.
SortOrders(rows, col, ascending) ==
    LET key(i) == Cell(rows[i], col)
        InOrder(i, j) ==
            \/ IsNaN(key(j))
            \/ /\ ~IsNaN(key(i))
               /\ IF ascending THEN Le(key(i), key(j)) ELSE Ge(key(i), key(j))
    IN  { p \in Perms(DOMAIN rows) :
              \A m \in 1..(Len(p) - 1) : InOrder(p[m], p[m + 1]) }

RECURSIVE PlayerRecords(_, _, _)
\* the records appended for the rows order[1], order[2], ...
PlayerRecords(rows, order, col) ==
    IF order = <<>> THEN <<>>
    ELSE << [name      |-> Cell(rows[order[1]], COL_name),
             team      |-> Cell(rows[order[1]], COL_team),
             positions |-> Cell(rows[order[1]], COL_positions),
             value     |-> Cell(rows[order[1]], col)] >>
         \o PlayerRecords(rows, Tail(order), col)

TopN == 5

\* CategoryRecs without head(5)
CategoryRecsUncapped(cat, col_name, columns, sub_df, ascending, rest) ==
    IF col_name \notin Range(columns) \/ Empty(sub_df) THEN rest
    ELSE { << [k |-> cat,
               v |-> PlayerRecords(sub_df.rows, order, col_name)] >>
           \o r :
               order \in SortOrders(sub_df.rows, col_name, ascending),
               r \in rest }

\* the possible values of free_agent_recommendations[type] from one weak
\* category on: its top free agents of the sub-population sub_df, followed
\* by one of rest
CategoryRecs(cat, col_name, columns, sub_df, ascending, rest) ==
    IF col_name \notin Range(columns) \/ Empty(sub_df) THEN rest
    ELSE { << [k |-> cat,
               v |-> PlayerRecords(sub_df.rows, Take(order, TopN), col_name)] >>
           \o r :
               order \in SortOrders(sub_df.rows, col_name, ascending),
               r \in rest }

RECURSIVE FreeAgentRecs(_, _, _, _)
\* the possible values of free_agent_recommendations[type]
FreeAgentRecs(type, weak, registry, fa_df) ==
    IF weak = <<>> THEN { <<>> }
    ELSE IF ~DictHas(registry, weak[1])
    THEN FreeAgentRecs(type, Tail(weak), registry, fa_df)
    ELSE CategoryRecs(weak[1], DictGet(registry, weak[1]), fa_df.columns,
                      SubRoster(type, fa_df),
                      type = "pitching" /\ weak[1] \in LowerIsBetter,
                      FreeAgentRecs(type, Tail(weak), registry, fa_df))

\* the recommendations built from the team's analysis; fa_df is the table of
\* the free agents, built only "if free_agents"
RecommendationsFor(team_id, team_analysis, free_agents, fa_df) ==
    IF IsError(team_analysis) THEN {team_analysis}
    ELSE { [team_id    |-> team_id,
            team_name  |-> team_analysis.team_name,
            weaknesses |-> team_analysis.weaknesses,
            improvement_strategies |->
                [batting  |-> StrategiesFor("batting", team_analysis.weaknesses.batting),
                 pitching |-> StrategiesFor("pitching", team_analysis.weaknesses.pitching)],
            free_agent_recommendations |->
                [batting |-> fb, pitching |-> fp]] :
           fb \in IF free_agents = <<>> THEN { <<>> }
                  ELSE FreeAgentRecs("batting", team_analysis.weaknesses.batting,
                                     DictGet(categories, "batting"), fa_df),
           fp \in IF free_agents = <<>> THEN { <<>> }
                  ELSE FreeAgentRecs("pitching", team_analysis.weaknesses.pitching,
                                     DictGet(categories, "pitching"), fa_df) }

\* what recommend_category_improvements(team_id, free_agents) may return
recommend_category_improvements(team_id, free_agents) ==
    RecommendationsFor(team_id, analyze_team_categories(team_id), free_agents,
                       players_to_dataframe(free_agents))

\* other_analysis rates cat Strong or Very Strong
RatesStrong(other_analysis, type, cat) ==
    /\ ~IsError(other_analysis)
    /\ DictHas(other_analysis.categories[type], cat)
    /\ DictGet(other_analysis.categories[type], cat).strength
           \in {"Strong", "Very Strong"}

\* the teams other than team_id whose analysis rates cat Strong or Very Strong
StrongTeams(team_id, type, cat) ==
    SelectSeq(teams, LAMBDA t :
        /\ t.team_id # team_id
        /\ RatesStrong(analyze_team_categories(t.team_id), type, cat))

\* A Team (src/data/models.py) has the field name and no field team_name, so
\* reading t.team_name for the first strong team raises AttributeError;
\* without any strong team no category gets an entry.
TradeTargetsFor(team_id, team_analysis) ==
    IF IsError(team_analysis) THEN team_analysis
    ELSE IF \E type \in {"batting", "pitching"} :
                \E i \in DOMAIN team_analysis.weaknesses[type] :
                    /\ DictHas(DictGet(categories, type),
                               team_analysis.weaknesses[type][i])
                    /\ StrongTeams(team_id, type,
                                   team_analysis.weaknesses[type][i]) # <<>>
         THEN [exception |-> "AttributeError: 'Team' object has no attribute 'team_name'"]
         ELSE [team_id       |-> team_id,
               team_name     |-> team_analysis.team_name,
               trade_targets |-> [batting |-> <<>>, pitching |-> <<>>]]

\* what identify_trade_targets(team_id) returns
identify_trade_targets(team_id) ==
    TradeTargetsFor(team_id, analyze_team_categories(team_id))

(***************************************************************************)
(* Inputs: players, rosters and leagues                                    *)
(***************************************************************************)
OF == <<"O", "F">>

STAT_hr == <<"h", "r">>

STAT_era == <<"e", "r", "a">>

STAT_k == <<"k">>

SCOPE == <<"s">>

PlayerName(id) == "P" \o ToString(id)

MkPlayer(id, slots, items) ==
    [playerId |-> id, name |-> PlayerName(id), proTeam |-> "NYY",
     eligibleSlots |-> slots,
     stats |-> IF items = <<>> THEN <<>>
               ELSE << [k |-> SCOPE, v |-> StatDict(items)] >>]

Batter(id, hr) == MkPlayer(id, <<OF>>, << [k |-> STAT_hr, v |-> Scalar(hr)] >>)

Pitcher(id, era, so) ==
    MkPlayer(id, <<SP>>, << [k |-> STAT_era, v |-> Scalar(era)],
                            [k |-> STAT_k, v |-> Scalar(so)] >>)

\* eligible at a pitching and at a batting slot
TwoWay(id, hr, era) ==
    MkPlayer(id, <<SP, OF>>, << [k |-> STAT_hr, v |-> Scalar(hr)],
                                [k |-> STAT_era, v |-> Scalar(era)] >>)

\* a reliever without any statistics yet
NoStats(id) == MkPlayer(id, <<RP>>, <<>>)

MaxTeams == 2

TeamName(t) == "T" \o ToString(t)

\* the rosters team t may have in a small league
RosterPool(t) ==
    { <<>>,
      << Batter(10 * t + 1, 1), Pitcher(10 * t + 2, 3, 2) >>,
      << TwoWay(10 * t + 1, 2, 4), NoStats(10 * t + 2) >> }

RECURSIVE LeaguesOfSize(_)
LeaguesOfSize(n) ==
    IF n = 0 THEN { <<>> }
    ELSE { Append(l, [team_id |-> n, name |-> TeamName(n), roster |-> r]) :
               l \in LeaguesOfSize(n - 1), r \in RosterPool(n) }

SmallLeagues == UNION { LeaguesOfSize(n) : n \in 0..MaxTeams }

TeamIds == 1..(MaxTeams + 1)

(***************************************************************************)
(* src/analysis/matchup_analysis.py: MatchupAnalyzer                       *)
(*                                                                         *)
(* None is <<>> and a present value x is <<x>>.  A returned dict with      *)
(* fixed keys is a record, one with computed keys a sequence of [k, v]     *)
(* pairs; the empty dict {} is <<>> either way.  A call that raises        *)
(* yields [exception |-> message].  Dates are day offsets from today.      *)
(***************************************************************************)
VARIABLES team_roster_df, opponent_roster_df, all_players_df, free_agents_df,
          matchup_call, matchup_result

matchup_vars == <<team_roster_df, opponent_roster_df, all_players_df,
                  free_agents_df, matchup_call, matchup_result>>

\* src/analysis/schedule_analysis.py: the ScheduleAnalyzer (<<>> while none
\* is constructed), the last call made on it and what the call returned
VARIABLES schedule_analyzer, schedule_call, schedule_result

schedule_vars == <<schedule_analyzer, schedule_call, schedule_result>>

vars == <<teams, team_dfs, league_stats, categories, result, last_call, repeated,
          team_roster_df, opponent_roster_df, all_players_df, free_agents_df,
          matchup_call, matchup_result,
          schedule_analyzer, schedule_call, schedule_result>>

\* no ScheduleAnalyzer has been constructed
NoScheduleAnalyzer ==
    /\ schedule_analyzer = <<>>
    /\ schedule_call = [op |-> "none"]
    /\ schedule_result = <<>>

\* players_to_dataframe(players) if players else None
FrameOrNone(players) ==
    IF players # <<>> THEN <<players_to_dataframe(players)>> ELSE <<>>

\* players_to_dataframe(t.roster) if t and t.roster else None
RosterFrameOrNone(t) == IF t # <<>> THEN FrameOrNone(t[1].roster) ELSE <<>>

\* self.team after __init__
TeamOf(matchup, team) ==
    IF matchup # <<>> THEN (IF team # <<>> THEN team ELSE <<matchup[1].team_1>>)
    ELSE team

\* self.opponent after __init__
OpponentOf(matchup, team, opponent) ==
    IF matchup # <<>>
    THEN IF team # <<>>
         THEN IF matchup[1].team_1.team_id # team[1].team_id
              THEN <<matchup[1].team_1>> ELSE <<matchup[1].team_2>>
         ELSE <<matchup[1].team_2>>
    ELSE opponent

\* MLBStatsClient.get_ballpark_factors: park name -> factor
mlb_ballpark_factors == <<
    [k |-> "Yankee Stadium", v |-> Rat(28, 25)],
    [k |-> "Fenway Park", v |-> Rat(5, 4)],
    [k |-> "Tropicana Field", v |-> Rat(47, 50)],
    [k |-> "Camden Yards", v |-> Rat(21, 20)],
    [k |-> "Rogers Centre", v |-> Rat(103, 100)],
    [k |-> "Dodger Stadium", v |-> Rat(49, 50)],
    [k |-> "Oracle Park", v |-> Rat(9, 10)],
    [k |-> "Petco Park", v |-> Rat(93, 100)],
    [k |-> "Chase Field", v |-> Rat(27, 25)],
    [k |-> "Coors Field", v |-> Rat(69, 50)],
    [k |-> "Truist Park", v |-> Rat(51, 50)],
    [k |-> "Citi Field", v |-> Rat(24, 25)],
    [k |-> "Citizens Bank Park", v |-> Rat(23, 20)],
    [k |-> "Nationals Park", v |-> IntNum(1)],
    [k |-> "LoanDepot Park", v |-> Rat(23, 25)],
    [k |-> "Wrigley Field", v |-> Rat(26, 25)],
    [k |-> "Guaranteed Rate Field", v |-> Rat(11, 10)],
    [k |-> "Great American Ball Park", v |-> Rat(111, 100)],
    [k |-> "American Family Field", v |-> Rat(21, 20)],
    [k |-> "Busch Stadium", v |-> Rat(49, 50)],
    [k |-> "PNC Park", v |-> Rat(91, 100)],
    [k |-> "Minute Maid Park", v |-> Rat(27, 25)],
    [k |-> "Globe Life Field", v |-> Rat(97, 100)],
    [k |-> "Angel Stadium", v |-> Rat(97, 100)],
    [k |-> "Oakland Coliseum", v |-> Rat(93, 100)],
    [k |-> "T-Mobile Park", v |-> Rat(47, 50)],
    [k |-> "Progressive Field", v |-> Rat(49, 50)],
    [k |-> "Comerica Park", v |-> Rat(19, 20)],
    [k |-> "Kauffman Stadium", v |-> Rat(49, 50)],
    [k |-> "Target Field", v |-> IntNum(1)] >>

\* MLBStatsClient.get_team_ratings: team abbreviation -> ratings
mlb_team_ratings == <<
    [k |-> "NYY", v |-> [offensive |-> IntNum(112), strikeout_rate |-> Rat(45, 2)]],
    [k |-> "BOS", v |-> [offensive |-> IntNum(108), strikeout_rate |-> IntNum(21)]],
    [k |-> "TB", v |-> [offensive |-> IntNum(103), strikeout_rate |-> Rat(121, 5)]],
    [k |-> "BAL", v |-> [offensive |-> IntNum(96), strikeout_rate |-> Rat(119, 5)]],
    [k |-> "TOR", v |-> [offensive |-> IntNum(105), strikeout_rate |-> Rat(41, 2)]],
    [k |-> "LAD", v |-> [offensive |-> IntNum(115), strikeout_rate |-> Rat(104, 5)]],
    [k |-> "SF", v |-> [offensive |-> IntNum(101), strikeout_rate |-> Rat(231, 10)]],
    [k |-> "SD", v |-> [offensive |-> IntNum(103), strikeout_rate |-> Rat(227, 10)]],
    [k |-> "ARI", v |-> [offensive |-> IntNum(100), strikeout_rate |-> Rat(223, 10)]],
    [k |-> "COL", v |-> [offensive |-> IntNum(95), strikeout_rate |-> Rat(49, 2)]],
    [k |-> "ATL", v |-> [offensive |-> IntNum(110), strikeout_rate |-> Rat(231, 10)]],
    [k |-> "NYM", v |-> [offensive |-> IntNum(102), strikeout_rate |-> Rat(219, 10)]],
    [k |-> "PHI", v |-> [offensive |-> IntNum(106), strikeout_rate |-> Rat(227, 10)]],
    [k |-> "WSH", v |-> [offensive |-> IntNum(94), strikeout_rate |-> Rat(104, 5)]],
    [k |-> "MIA", v |-> [offensive |-> IntNum(90), strikeout_rate |-> Rat(253, 10)]],
    [k |-> "CHC", v |-> [offensive |-> IntNum(98), strikeout_rate |-> Rat(241, 10)]],
    [k |-> "CIN", v |-> [offensive |-> IntNum(101), strikeout_rate |-> Rat(47, 2)]],
    [k |-> "MIL", v |-> [offensive |-> IntNum(100), strikeout_rate |-> Rat(119, 5)]],
    [k |-> "PIT", v |-> [offensive |-> IntNum(92), strikeout_rate |-> Rat(121, 5)]],
    [k |-> "STL", v |-> [offensive |-> IntNum(102), strikeout_rate |-> Rat(99, 5)]],
    [k |-> "HOU", v |-> [offensive |-> IntNum(108), strikeout_rate |-> Rat(39, 2)]],
    [k |-> "TEX", v |-> [offensive |-> IntNum(105), strikeout_rate |-> Rat(231, 10)]],
    [k |-> "LAA", v |-> [offensive |-> IntNum(100), strikeout_rate |-> Rat(247, 10)]],
    [k |-> "OAK", v |-> [offensive |-> IntNum(88), strikeout_rate |-> Rat(249, 10)]],
    [k |-> "SEA", v |-> [offensive |-> IntNum(97), strikeout_rate |-> Rat(128, 5)]],
    [k |-> "CLE", v |-> [offensive |-> IntNum(99), strikeout_rate |-> Rat(106, 5)]],
    [k |-> "DET", v |-> [offensive |-> IntNum(93), strikeout_rate |-> Rat(119, 5)]],
    [k |-> "KC", v |-> [offensive |-> IntNum(95), strikeout_rate |-> Rat(221, 10)]],
    [k |-> "MIN", v |-> [offensive |-> IntNum(102), strikeout_rate |-> Rat(229, 10)]],
    [k |-> "CWS", v |-> [offensive |-> IntNum(97), strikeout_rate |-> Rat(47, 2)]] >>
\* the placeholder tables optimize_pitcher_starts uses when the client
\* cannot be imported or constructed
placeholder_ballpark_factors == <<
    [k |-> "Yankee Stadium", v |-> Rat(112, 100)],
    [k |-> "Fenway Park", v |-> Rat(125, 100)],
    [k |-> "Tropicana Field", v |-> Rat(94, 100)],
    [k |-> "Camden Yards", v |-> Rat(105, 100)],
    [k |-> "Rogers Centre", v |-> Rat(103, 100)] >>

placeholder_team_ratings == <<
    [k |-> "NYY", v |-> [offensive |-> IntNum(112), strikeout_rate |-> Rat(225, 10)]],
    [k |-> "BOS", v |-> [offensive |-> IntNum(108), strikeout_rate |-> IntNum(21)]],
    [k |-> "TB", v |-> [offensive |-> IntNum(103), strikeout_rate |-> Rat(242, 10)]],
    [k |-> "BAL", v |-> [offensive |-> IntNum(96), strikeout_rate |-> Rat(238, 10)]],
    [k |-> "TOR", v |-> [offensive |-> IntNum(105), strikeout_rate |-> Rat(205, 10)]] >>

ballpark_factors(use_mlb_api) ==
    IF use_mlb_api THEN mlb_ballpark_factors ELSE placeholder_ballpark_factors

team_ratings(use_mlb_api) ==
    IF use_mlb_api THEN mlb_team_ratings ELSE placeholder_team_ratings

\* the opponent factor for one entry of the ratings table
RatingFactor(rating, clamped) ==
    IF Gt(rating.strikeout_rate, IntNum(24))
    THEN Mul(clamped, Rat(105, 100)) ELSE clamped

\* the nested function calculate_adjusted_score of optimize_pitcher_starts
opponent_factor(opponent, ratings) ==
    IF DictHas(ratings, opponent)
    THEN RatingFactor(DictGet(ratings, opponent),
             PyMax(Rat(7, 10),
                   PyMin(Rat(12, 10),
                         Sub(IntNum(2),
                             Div(DictGet(ratings, opponent).offensive,
                                 IntNum(100))))))
    ELSE IntNum(1)

ParkFactor(park_factor, home_game) ==
    PyMax(Rat(85, 100),
          PyMin(Rat(125, 100),
                Div(IntNum(1),
                    IF home_game THEN park_factor
                    ELSE Add(Mul(Sub(park_factor, IntNum(1)), Rat(6, 10)),
                             IntNum(1)))))

ballpark_factor(ballpark, home_game, parks) ==
    IF DictHas(parks, ballpark)
    THEN ParkFactor(DictGet(parks, ballpark), home_game)
    ELSE IntNum(1)

calculate_adjusted_score(base_score, opponent, ballpark, home_game, ratings, parks) ==
    Mul(Mul(base_score, opponent_factor(opponent, ratings)),
        ballpark_factor(ballpark, home_game, parks))

\* df[df['positions'].str.contains(pos, case=False)]
AtPosition(df, pos) ==
    FilterRows(df, LAMBDA row : ContainsCI(pos, Cell(row, COL_positions)))

\* [col for col in df.columns if 'projected_points' in col or 'projected' in col]
ProjCols(df) ==
    SelectSeq(df.columns, LAMBDA col : Contains(STR_projected_points, col)
                                       \/ Contains(STR_projected, col))

RECURSIVE Names(_)
\* df['name'].tolist()
Names(rows) ==
    IF rows = <<>> THEN <<>> ELSE <<Cell(rows[1], COL_name)>> \o Names(Tail(rows))

\* head that keeps one row more
head_inclusive(s, n) == Take(s, n + 1)

\* DataFrame.head(n) and DataFrame.iloc[n:] on a list of rows
head(s, n) ==
    IF n >= 0 THEN Take(s, n)
    ELSE Take(s, IF Len(s) + n > 0 THEN Len(s) + n ELSE 0)

iloc_from(s, n) ==
    IF n >= 0 THEN Drop(s, IF n < Len(s) THEN n ELSE Len(s))
    ELSE Drop(s, IF Len(s) + n > 0 THEN Len(s) + n ELSE 0)

RECURSIVE InitialPitcherData(_, _)
\* pitcher_data after the adjusted_score, start_date, opponent, ballpark,
\* home_game and note columns were added
InitialPitcherData(rows, proj_col) ==
    IF rows = <<>> THEN <<>>
    ELSE << [name |-> Cell(rows[1], COL_name),
             base_score |-> Cell(rows[1], proj_col),
             adjusted_score |-> Cell(rows[1], proj_col),
             start_date |-> <<>>, opponent |-> <<>>, ballpark |-> <<>>,
             home_game |-> FALSE, note |-> <<>>] >>
         \o InitialPitcherData(Tail(rows), proj_col)

\* the start data and the explanation stored for one pitcher whose
\* adjusted score is adjusted
StartOf(row, start_date, opponent, ballpark, home_game, adjusted, high_k) ==
    [row EXCEPT !.start_date = <<start_date>>, !.opponent = <<opponent>>,
                !.ballpark = <<ballpark>>, !.home_game = home_game,
                !.adjusted_score = adjusted,
                !.note = << IF Gt(adjusted, row.base_score)
                            THEN "Favorable matchup vs " \o opponent
                                 \o (IF high_k THEN " (high K%)" ELSE "")
                            ELSE "Tough matchup vs " \o opponent >>]

\* team_ratings.get(opponent, {}).get("strikeout_rate", 0) > 24
HighK(opponent, ratings) ==
    /\ DictHas(ratings, opponent)
    /\ Gt(DictGet(ratings, opponent).strikeout_rate, IntNum(24))

WithStart(row, start_date, opponent, ballpark, home_game, high_k_note, use_mlb_api) ==
    StartOf(row, start_date, opponent, ballpark, home_game,
            calculate_adjusted_score(row.base_score, opponent, ballpark, home_game,
                                     team_ratings(use_mlb_api),
                                     ballpark_factors(use_mlb_api)),
            high_k_note /\ HighK(opponent, team_ratings(use_mlb_api)))

\* pitcher_name_to_idx[name]: the last row with that name
IdxOfName(pitcher_data, name) ==
    CHOOSE i \in DOMAIN pitcher_data :
        /\ pitcher_data[i].name = name
        /\ \A j \in DOMAIN pitcher_data : pitcher_data[j].name = name => j <= i

\* one probable starter: matched by name against the rows, the last row
\* with that name is updated
MatchStarter(pitcher_data, team_abbrev, starter) ==
    IF \E i \in DOMAIN pitcher_data : pitcher_data[i].name = starter.name
    THEN [pitcher_data EXCEPT ![IdxOfName(pitcher_data, starter.name)] =
             WithStart(@, starter.date, starter.opponent_abbrev,
                       IF starter.home_game THEN team_abbrev \o " home park"
                       ELSE starter.opponent_abbrev \o " home park",
                       starter.home_game, TRUE, TRUE)]
    ELSE pitcher_data

RECURSIVE MatchStarters(_, _, _)
\* the loop over one team's probable starters
MatchStarters(pitcher_data, team_abbrev, starters) ==
    IF starters = <<>> THEN pitcher_data
    ELSE MatchStarters(MatchStarter(pitcher_data, team_abbrev, starters[1]),
                       team_abbrev, Tail(starters))

RECURSIVE MatchProbables(_, _)
\* the loop over probable_starters.items()
MatchProbables(pitcher_data, probable_starters) ==
    IF probable_starters = <<>> THEN pitcher_data
    ELSE MatchProbables(
             MatchStarters(pitcher_data, probable_starters[1].k, probable_starters[1].v),
             Tail(probable_starters))

\* the placeholder loop with every home start at Fenway Park instead of
\* "Home Park"
RandomizedAtFenway(pitcher_data, draws, use_mlb_api) ==
    [i \in DOMAIN pitcher_data |->
        IF pitcher_data[i].start_date = <<>>
        THEN WithStart(pitcher_data[i], draws[i].days, draws[i].opponent,
                       IF draws[i].home_game THEN "Fenway Park"
                       ELSE draws[i].opponent \o " Park",
                       draws[i].home_game, FALSE, use_mlb_api)
        ELSE pitcher_data[i]]

\* the placeholder loop: draws[i] holds what random.randint and the two
\* random.choice calls return for row i.  (The ballpark_factor column it
\* also fills from random.random() is read nowhere.)
Randomized(pitcher_data, draws, use_mlb_api) ==
    [i \in DOMAIN pitcher_data |->
        IF pitcher_data[i].start_date = <<>>
        THEN WithStart(pitcher_data[i], draws[i].days, draws[i].opponent,
                       IF draws[i].home_game THEN "Home Park"
                       ELSE draws[i].opponent \o " Park",
                       draws[i].home_game, FALSE, use_mlb_api)
        ELSE pitcher_data[i]]

\* pitcher_data.sort_values('adjusted_score', ascending=False): the possible
\* orders, NaN last, equal scores in any order
RankedOrders(pitcher_data) ==
    LET key(i) == pitcher_data[i].adjusted_score
    IN  { p \in Perms(DOMAIN pitcher_data) :
              \A m \in 1..(Len(p) - 1) :
                  IsNaN(key(p[m + 1])) \/ Ge(key(p[m]), key(p[m + 1])) }

RECURSIVE PitcherNotes(_, _)
PitcherNotes(acc, pitcher_data) ==
    IF pitcher_data = <<>> THEN acc
    ELSE PitcherNotes(IF pitcher_data[1].note # <<>>
                      THEN DictSet(acc, pitcher_data[1].name, pitcher_data[1].note[1])
                      ELSE acc,
                      Tail(pitcher_data))

RECURSIVE PitcherSchedule(_, _)
PitcherSchedule(acc, pitcher_data) ==
    IF pitcher_data = <<>> THEN acc
    ELSE PitcherSchedule(
             IF pitcher_data[1].start_date # <<>>
             THEN DictSet(acc, pitcher_data[1].name,
                          [date |-> pitcher_data[1].start_date[1],
                           opponent |-> pitcher_data[1].opponent[1],
                           ballpark |-> pitcher_data[1].ballpark[1],
                           home_game |-> pitcher_data[1].home_game])
             ELSE acc,
             Tail(pitcher_data))

RECURSIVE StartDistribution(_, _)
\* date -> names, in the order of pitcher_schedule
StartDistribution(acc, schedule) ==
    IF schedule = <<>> THEN acc
    ELSE LET date == schedule[1].v.date
         IN  StartDistribution(
                 DictSet(acc, date,
                         Append(IF DictHas(acc, date) THEN DictGet(acc, date) ELSE <<>>,
                                schedule[1].k)),
                 Tail(schedule))

\* Series.sum() of a list of numbers, NaN skipped
SumSkipNaN(values) == SumNum(SelectSeq(values, LAMBDA x : ~IsNaN(x)))

\* the names of a list of pitcher_data rows
RowNames(rows) == [m \in DOMAIN rows |-> rows[m].name]

\* the record returned for the ranked rows and the first max_starts of them
StartsResult(max_starts, pitcher_data, schedule, ranked, recommended_starts) ==
    [max_starts |-> max_starts,
     recommended_pitchers |-> RowNames(recommended_starts),
     pitcher_notes |-> PitcherNotes(<<>>, pitcher_data),
     pitcher_schedule |-> schedule,
     start_distribution |-> StartDistribution(<<>>, schedule),
     projected_points |->
         SumSkipNaN([m \in DOMAIN recommended_starts |->
                        recommended_starts[m].base_score]),
     adjusted_points |->
         SumSkipNaN([m \in DOMAIN recommended_starts |->
                        recommended_starts[m].adjusted_score]),
     benched_pitchers |->
         IF Len(ranked) > max_starts
         THEN RowNames(iloc_from(ranked, max_starts)) ELSE <<>>,
     note |-> "Recommendations based on matchup strength and probable start dates."]

RankedResult(max_starts, pitcher_data, schedule, ranked) ==
    StartsResult(max_starts, pitcher_data, schedule, ranked,
                 head(ranked, max_starts))

\* the possible results once every pitcher has its start data
ResultsFor(max_starts, pitcher_data) ==
    { RankedResult(max_starts, pitcher_data, PitcherSchedule(<<>>, pitcher_data),
                   [m \in DOMAIN order |-> pitcher_data[order[m]]]) :
          order \in RankedOrders(pitcher_data) }

\* the branch "if proj_cols"
RankByProjection(max_starts, use_mlb_api, probable_starters, draws, initial) ==
    ResultsFor(max_starts,
               Randomized(IF use_mlb_api /\ probable_starters # <<>>
                          THEN MatchProbables(initial, probable_starters)
                          ELSE initial,
                          draws, use_mlb_api))

\* StartsFor with a fallback that honours the cap
StartsForCapped(max_starts, use_mlb_api, probable_starters, draws, starting_pitchers, proj_cols) ==
    IF Empty(starting_pitchers)
    THEN { [error |-> "No starting pitchers found on roster"] }
    ELSE IF proj_cols # <<>>
    THEN RankByProjection(max_starts, use_mlb_api, probable_starters, draws,
                          InitialPitcherData(starting_pitchers.rows, proj_cols[1]))
    ELSE { [max_starts |-> max_starts,
            recommended_pitchers |-> head(Names(starting_pitchers.rows), max_starts),
            note |-> "No projections available, recommendation based on roster only"] }

\* the result for the rows starting_pitchers of the roster
StartsFor(max_starts, use_mlb_api, probable_starters, draws, starting_pitchers, proj_cols) ==
    IF Empty(starting_pitchers)
    THEN { [error |-> "No starting pitchers found on roster"] }
    ELSE IF proj_cols # <<>>
    THEN RankByProjection(max_starts, use_mlb_api, probable_starters, draws,
                          InitialPitcherData(starting_pitchers.rows, proj_cols[1]))
    ELSE { [max_starts |-> max_starts,
            recommended_pitchers |-> Names(starting_pitchers.rows),
            note |-> "No projections available, recommendation based on roster only"] }

\* what optimize_pitcher_starts(max_starts) can return when the client
\* import succeeds or not (use_mlb_api), the probable-starter feed is
\* probable_starters and the random module returns draws
optimize_pitcher_starts(max_starts, use_mlb_api, probable_starters, draws) ==
    IF team_roster_df = <<>> THEN { <<>> }
    ELSE StartsFor(max_starts, use_mlb_api, probable_starters, draws,
                   AtPosition(team_roster_df[1], SP),
                   ProjCols(AtPosition(team_roster_df[1], SP)))

\* position name -> its characters
PositionChars == <<
    [k |-> "C", v |-> <<"C">>], [k |-> "1B", v |-> <<"1", "B">>],
    [k |-> "2B", v |-> <<"2", "B">>], [k |-> "3B", v |-> <<"3", "B">>],
    [k |-> "SS", v |-> <<"S", "S">>], [k |-> "OF", v |-> OF],
    [k |-> "UTIL", v |-> <<"U", "T", "I", "L">>], [k |-> "SP", v |-> SP],
    [k |-> "RP", v |-> RP] >>

\* a dict with computed keys as a function on its keys
AsRecord(d) == [key \in Range(DictKeys(d)) |-> DictGet(d, key)]

_calculate_position_projection(players_df) ==
    IF Empty(players_df) THEN IntNum(0)
    ELSE LET proj_cols == SelectSeq(players_df.columns,
                              LAMBDA col : Contains(STR_projected_points, col))
         IN  IF proj_cols # <<>> THEN ColSum(players_df, proj_cols[1]) ELSE IntNum(0)

RECURSIVE PositionAnalysis(_, _, _, _)
\* the loop of analyze_position_matchups over the positions
PositionAnalysis(acc, positions, team_df, opponent_df) ==
    IF positions = <<>> THEN acc
    ELSE LET pos == DictGet(PositionChars, positions[1])
             team_pos_players == AtPosition(team_df, pos)
             opp_pos_players  == AtPosition(opponent_df, pos)
             team_proj == _calculate_position_projection(team_pos_players)
             opp_proj  == _calculate_position_projection(opp_pos_players)
             diff      == Sub(team_proj, opp_proj)
         IN  PositionAnalysis(
                 DictSet(acc, positions[1],
                     [team_projection |-> team_proj,
                      opponent_projection |-> opp_proj,
                      advantage |-> IF Gt(team_proj, opp_proj) THEN "team"
                                    ELSE IF Gt(opp_proj, team_proj) THEN "opponent"
                                    ELSE "even",
                      difference |-> IF Lt(diff, IntNum(0)) THEN Neg(diff) ELSE diff,
                      team_players |-> Names(team_pos_players.rows),
                      opponent_players |-> Names(opp_pos_players.rows)]),
                 Tail(positions), team_df, opponent_df)

\* The guard reads "not self.team_roster_df is not None or
\* self.opponent_roster_df is not None": it returns {} when the team frame
\* is None or the opponent frame is present, and the loop then subscripts
\* the opponent frame
analyze_position_matchups ==
    IF team_roster_df = <<>> \/ opponent_roster_df # <<>> THEN <<>>
    ELSE IF opponent_roster_df = <<>>
    THEN [exception |-> "TypeError: 'NoneType' object is not subscriptable"]
    ELSE AsRecord(PositionAnalysis(<<>>,
             <<"C", "1B", "2B", "3B", "SS", "OF", "UTIL", "SP", "RP">>,
             team_roster_df[1], opponent_roster_df[1]))

\* pandas Series.std(): sample standard deviation, NaN skipped, NaN for
\* fewer than two values
PdStd(values) ==
    IF Len(values) < 2 THEN NaN
    ELSE LET var == Div(SumNum(SquaredDeviations(values, NpMean(values))),
                        IntNum(Len(values) - 1))
         IN  Sqrt(var.a, var.c)

\* one iteration of _analyze_team_position_strength: an entry, no entry, or
\* the KeyError of team_pos_players[proj_cols[0]] when the league-wide
\* frame has a projection column that the roster frame lacks
StrengthAt(pos) ==
    LET team_pos_players == AtPosition(team_roster_df[1], pos)
        all_pos_players  == AtPosition(all_players_df[1], pos)
        proj_cols        == ProjCols(all_pos_players)
    IN  IF Empty(team_pos_players)
        THEN [kind |-> "entry", strength |-> IntNum(0)]
        ELSE IF Empty(all_pos_players) \/ proj_cols = <<>> THEN [kind |-> "none"]
        ELSE IF proj_cols[1] \notin Range(team_pos_players.columns)
        THEN [kind |-> "KeyError"]
        ELSE LET team_avg == ColMean(team_pos_players, proj_cols[1])
                 all_avg  == ColMean(all_pos_players, proj_cols[1])
                 all_std  == PdStd(ColValues(all_pos_players.rows, proj_cols[1]))
             IN  [kind |-> "entry",
                  strength |->
                      IF Gt(all_std, IntNum(0))
                      THEN PyMin(PyMax(Div(Add(Div(Sub(team_avg, all_avg), all_std),
                                               IntNum(3)), IntNum(6)),
                                       IntNum(0)), IntNum(1))
                      ELSE Rat(1, 2)]

\* position -> StrengthAt, {} when a frame is missing
_analyze_team_position_strength ==
    IF team_roster_df = <<>> \/ all_players_df = <<>> THEN <<>>
    ELSE [i \in 1..8 |->
             LET name == <<"C", "1B", "2B", "3B", "SS", "OF", "SP", "RP">>[i]
             IN  [k |-> name, v |-> StrengthAt(DictGet(PositionChars, name))]]

RECURSIVE TopRecords(_, _, _)
\* df[['name', 'team', col]].to_dict('records') for the rows order[1], ...
TopRecords(rows, order, col) ==
    IF order = <<>> THEN <<>>
    ELSE << [name |-> Cell(rows[order[1]], COL_name),
             team |-> Cell(rows[order[1]], COL_team),
             projection |-> Cell(rows[order[1]], col)] >>
         \o TopRecords(rows, Tail(order), col)

\* the possible values of df.sort_values(proj_cols[0], ascending=False)
\* .head(n) as records
RankedTop(df, n) ==
    LET col == ProjCols(df)[1]
    IN  { TopRecords(df.rows, Take(order, n), col) :
              order \in SortOrders(df.rows, col, FALSE) }

_recommend_streaming_pitchers ==
    IF free_agents_df = <<>> THEN { <<>> }
    ELSE LET fa_sp == AtPosition(free_agents_df[1], SP)
         IN  IF Empty(fa_sp) \/ ProjCols(fa_sp) = <<>> THEN { <<>> }
             ELSE RankedTop(fa_sp, 5)

RECURSIVE PositionRecommendations(_, _)
\* the possible contents of recommendations after the loop over positions
PositionRecommendations(positions, team_strength) ==
    IF positions = <<>> THEN { <<>> }
    ELSE LET pos  == positions[Len(positions)]
             rest == PositionRecommendations(Take(positions, Len(positions) - 1),
                                             team_strength)
             pos_free_agents == AtPosition(free_agents_df[1], DictGet(PositionChars, pos))
         IN  IF /\ DictHas(team_strength, pos)
                /\ DictGet(team_strength, pos).kind = "entry"
                /\ Lt(DictGet(team_strength, pos).strength, Rat(7, 10))
                /\ ~Empty(pos_free_agents)
                /\ ProjCols(pos_free_agents) # <<>>
             THEN { Append(r, [k |-> pos, v |-> top]) :
                        r \in rest, top \in RankedTop(pos_free_agents, 3) }
             ELSE rest

\* what recommend_acquisitions(limit) can return; limit is never read
recommend_acquisitions(limit) ==
    IF free_agents_df = <<>> \/ team_roster_df = <<>> THEN { <<>> }
    ELSE LET team_strength == _analyze_team_position_strength
         IN  IF \E i \in DOMAIN team_strength : team_strength[i].v.kind = "KeyError"
             THEN { [exception |-> "KeyError: projection column missing from the roster"] }
             ELSE { AsRecord(IF streaming_sp # <<>>
                             THEN Append(r, [k |-> "streaming_sp", v |-> streaming_sp])
                             ELSE r) :
                        r \in PositionRecommendations(
                                  <<"C", "1B", "2B", "3B", "SS", "OF", "SP">>,
                                  team_strength),
                        streaming_sp \in _recommend_streaming_pitchers }

(***************************************************************************)
(* CategoryAnalyzer: construction and operations                           *)
(***************************************************************************)
NoCall == [op |-> "none", team_id |-> 0, free_agents |-> <<>>]

\* CategoryAnalyzer(ts): the fields after __init__, which processes the
\* teams only "if teams"
ConstructedWith(ts) ==
    /\ teams = ts
    /\ team_dfs = IF ts # <<>> THEN BuildTeamDfs(<<>>, ts) ELSE <<>>
    /\ categories = IF ts # <<>> THEN _identify_categories(ts, team_dfs) ELSE <<>>
    /\ league_stats = IF ts # <<>>
                      THEN _calculate_league_stats(ts, team_dfs, categories, <<>>)
                      ELSE <<>>
    /\ result = <<>>
    /\ last_call = NoCall
    /\ repeated = FALSE

\* set_teams(ts) with _process_teams, _identify_categories and
\* _calculate_league_stats
set_teams(ts) ==
    /\ teams' = ts
    /\ team_dfs' = BuildTeamDfs(<<>>, ts)
    /\ categories' = _identify_categories(ts, team_dfs')
    /\ league_stats' = _calculate_league_stats(ts, team_dfs', categories', league_stats)
    /\ result' = <<>>
    /\ last_call' = [op |-> "set_teams", team_id |-> 0, free_agents |-> <<>>]
    /\ repeated' = FALSE
    /\ UNCHANGED matchup_vars
    /\ UNCHANGED schedule_vars

\* a call that returns value and drops the per-team tables
ReturnsAndForgets(op, team_id, free_agents, value) ==
    /\ result' = value
    /\ last_call' = [op |-> op, team_id |-> team_id, free_agents |-> free_agents]
    /\ repeated' = (op = "analyze_team_categories" /\ last_call' = last_call)
    /\ team_dfs' = <<>>
    /\ UNCHANGED <<teams, league_stats, categories>>
    /\ UNCHANGED matchup_vars
    /\ UNCHANGED schedule_vars

\* a call that returns value and keeps the league baseline as its own
\* scratch space, leaving it empty
ReturnsAndClears(op, team_id, free_agents, value) ==
    /\ result' = value
    /\ last_call' = [op |-> op, team_id |-> team_id, free_agents |-> free_agents]
    /\ repeated' = (op = "analyze_team_categories" /\ last_call' = last_call)
    /\ league_stats' = <<>>
    /\ UNCHANGED <<teams, team_dfs, categories>>
    /\ UNCHANGED matchup_vars
    /\ UNCHANGED schedule_vars

\* a call that only reads the analyzer and returns value
Returns(op, team_id, free_agents, value) ==
    /\ result' = value
    /\ last_call' = [op |-> op, team_id |-> team_id, free_agents |-> free_agents]
    /\ repeated' = (op = "analyze_team_categories" /\ last_call' = last_call)
    /\ UNCHANGED <<teams, team_dfs, league_stats, categories>>
    /\ UNCHANGED matchup_vars
    /\ UNCHANGED schedule_vars

AnalyzeTeamCategories(team_id) ==
    Returns("analyze_team_categories", team_id, <<>>, analyze_team_categories(team_id))

RecommendCategoryImprovements(team_id, free_agents) ==
    \E value \in recommend_category_improvements(team_id, free_agents) :
        Returns("recommend_category_improvements", team_id, free_agents, value)

IdentifyTradeTargets(team_id) ==
    Returns("identify_trade_targets", team_id, <<>>, identify_trade_targets(team_id))

\* the free-agent lists a caller passes: none, or three players
FreeAgentLists ==
    { <<>>,
      << Batter(91, 4), Pitcher(92, 2, 6), Pitcher(93, 4, 1) >> }

(***************************************************************************)
(* MatchupAnalyzer: inputs, construction and operations                    *)
(***************************************************************************)
COL_0_projected_points == <<"0", "_">> \o STR_projected_points

\* a player with the flat projection statistic of the report adapters
Projected(id, slots, points) ==
    [playerId |-> id, name |-> PlayerName(id), proTeam |-> "NYY",
     eligibleSlots |-> slots,
     stats |-> << [k |-> COL_0_projected_points, v |-> Scalar(points)] >>]

MkTeam(team_id, roster) ==
    [team_id |-> team_id, name |-> TeamName(team_id), roster |-> roster]

ProjectedRoster ==
    << Projected(1, << <<"C">> >>, 5), Projected(2, <<SP>>, 10),
       Projected(3, <<SP, RP>>, 8) >>

\* the rosters of the user's team: empty, no starter, starters with
\* projections, starters without a projection column
MatchupRosters ==
    { <<>>,
      << Projected(1, << <<"C">> >>, 5) >>,
      ProjectedRoster,
      << Pitcher(2, 3, 2), Pitcher(3, 4, 1) >> }

OpponentRoster == << Projected(4, << <<"C">> >>, 7), Projected(5, <<SP>>, 9) >>

FreeAgentPool ==
    << Projected(6, << <<"C">>, <<"1", "B">> >>, 9), Projected(7, <<SP>>, 12),
       Projected(8, <<SP>>, 12) >>

LeaguePlayers == ProjectedRoster \o OpponentRoster \o FreeAgentPool

\* the arguments of MatchupAnalyzer(matchup, team, opponent, all_players,
\* free_agents); an omitted argument is <<>>
MatchupArguments ==
    { [matchup |-> m, team |-> t, opponent |-> o, all_players |-> a, free_agents |-> f] :
        m \in { <<>>, << [team_1 |-> MkTeam(1, ProjectedRoster),
                         team_2 |-> MkTeam(2, OpponentRoster)] >> },
        t \in { <<>> } \cup { << MkTeam(1, r) >> : r \in MatchupRosters },
        o \in { <<>>, << MkTeam(2, OpponentRoster) >> },
        a \in { <<>>, LeaguePlayers },
        f \in { <<>>, FreeAgentPool } }

\* MatchupAnalyzer(...): the fields after __init__
MatchupConstructedWith(args) ==
    /\ all_players_df = FrameOrNone(args.all_players)
    /\ free_agents_df = FrameOrNone(args.free_agents)
    /\ team_roster_df = RosterFrameOrNone(TeamOf(args.matchup, args.team))
    /\ opponent_roster_df =
           RosterFrameOrNone(OpponentOf(args.matchup, args.team, args.opponent))
    /\ matchup_call = [op |-> "none", arg |-> 0]
    /\ matchup_result = <<>>

NoArguments ==
    [matchup |-> <<>>, team |-> <<>>, opponent |-> <<>>, all_players |-> <<>>,
     free_agents |-> <<>>]

\* a call on the matchup analyzer that returns value
MatchupReturns(op, arg, value) ==
    /\ matchup_result' = value
    /\ matchup_call' = [op |-> op, arg |-> arg]
    /\ UNCHANGED <<team_roster_df, opponent_roster_df, all_players_df, free_agents_df>>
    /\ UNCHANGED ca_vars
    /\ UNCHANGED schedule_vars

AnalyzePositionMatchups ==
    MatchupReturns("analyze_position_matchups", 0, analyze_position_matchups)

\* the caps a caller passes
MaxStartsBound == 3

\* what the probable-starter feed returns: nothing, or a home start of
\* player 2 and a road start of an unrostered pitcher
ProbableFeeds ==
    { <<>>,
      << [k |-> "NYY", v |-> << [name |-> PlayerName(2), date |-> 3,
                                 opponent_abbrev |-> "BOS", home_game |-> TRUE] >>],
         [k |-> "BOS", v |-> << [name |-> PlayerName(99), date |-> 3,
                                 opponent_abbrev |-> "NYY", home_game |-> FALSE] >>] >> }

\* values of (random.randint(1, 7), random.choice(list(team_ratings.keys())),
\* random.choice([True, False])) that the model explores
RandomDraws ==
    { [days |-> 1, opponent |-> "NYY", home_game |-> TRUE],
      [days |-> 7, opponent |-> "OAK", home_game |-> FALSE],
      [days |-> 1, opponent |-> "ARI", home_game |-> FALSE],
      [days |-> 7, opponent |-> "TB", home_game |-> TRUE] }

DrawsFor(use_mlb_api) ==
    { d \in RandomDraws : DictHas(team_ratings(use_mlb_api), d.opponent) }

\* the number of rows of starting_pitchers
StartingPitcherCount ==
    IF team_roster_df = <<>> THEN 0 ELSE Len(AtPosition(team_roster_df[1], SP).rows)

\* a call optimize_pitcher_starts(max_starts) that returns value; the call
\* record also holds what the call read from its environment
StartsReturned(max_starts, use_mlb_api, probable_starters, value) ==
    /\ matchup_result' = value
    /\ matchup_call' = [op |-> "optimize_pitcher_starts", arg |-> max_starts,
                        use_mlb_api |-> use_mlb_api,
                        probable_starters |-> probable_starters]
    /\ UNCHANGED <<team_roster_df, opponent_roster_df, all_players_df, free_agents_df>>
    /\ UNCHANGED ca_vars
    /\ UNCHANGED schedule_vars

OptimizePitcherStarts(max_starts, use_mlb_api, probable_starters) ==
    \E draws \in [1..StartingPitcherCount -> DrawsFor(use_mlb_api)] :
        \E value \in optimize_pitcher_starts(max_starts, use_mlb_api,
                                             probable_starters, draws) :
            StartsReturned(max_starts, use_mlb_api, probable_starters, value)

RecommendAcquisitions(limit) ==
    \E value \in recommend_acquisitions(limit) :
        MatchupReturns("recommend_acquisitions", limit, value)

MatchupInit ==
    /\ ConstructedWith(<<>>)
    /\ \E args \in MatchupArguments : MatchupConstructedWith(args)
    /\ NoScheduleAnalyzer

MatchupNext ==
    \/ AnalyzePositionMatchups
    \/ \E max_starts \in (-1)..MaxStartsBound, use_mlb_api \in BOOLEAN,
          probable_starters \in ProbableFeeds :
           OptimizePitcherStarts(max_starts, use_mlb_api, probable_starters)
    \/ \E limit \in {1, 8} : RecommendAcquisitions(limit)

MatchupSpec == MatchupInit /\ [][MatchupNext]_vars

(***************************************************************************)
(* The category analyzer on small leagues                                  *)
(***************************************************************************)
Init ==
    /\ ConstructedWith(<<>>)
    /\ MatchupConstructedWith(NoArguments)
    /\ NoScheduleAnalyzer

Next ==
    \/ \E ts \in SmallLeagues : set_teams(ts)
    \/ \E team_id \in TeamIds : AnalyzeTeamCategories(team_id)
    \/ \E team_id \in TeamIds, free_agents \in FreeAgentLists :
           RecommendCategoryImprovements(team_id, free_agents)
    \/ \E team_id \in TeamIds : IdentifyTradeTargets(team_id)

Spec == Init /\ [][Next]_vars

(***************************************************************************)
(* The category analyzer on leagues with graded team values                *)
(***************************************************************************)
STAT_whip == <<"w", "h", "i", "p">>

STAT_bb9 == <<"b", "b", "/", "9">>

\* a starter with the three lower-is-better rate statistics
StaffPitcher(id, era, whip, bb9) ==
    MkPlayer(id, <<SP>>, << [k |-> STAT_era, v |-> Scalar(era)],
                            [k |-> STAT_whip, v |-> Scalar(whip)],
                            [k |-> STAT_bb9, v |-> Scalar(bb9)] >>)

MaxLeague == 11

\* n team values: the first j teams at 1, the others at 2
Split(n, j) == [t \in 1..n |-> IF t <= j THEN 1 ELSE 2]

\* six team values with mean 5/2 and standard deviation 5/2
Staggered == <<0, 0, 1, 3, 4, 7>>

ValuePatterns ==
    UNION { { Split(n, j) : j \in 0..(n - 1) } : n \in 1..MaxLeague }
        \cup { Staggered }

Top(pattern) == CHOOSE v \in Range(pattern) : \A u \in Range(pattern) : u <= v

\* team t has one batter with pattern[t] home runs and one starter whose
\* ERA mirrors that value and whose WHIP and BB/9 follow it
PatternLeague(pattern) ==
    [t \in DOMAIN pattern |->
        MkTeam(t, << Batter(2 * t - 1, pattern[t]),
                     StaffPitcher(2 * t, Top(pattern) - pattern[t],
                                  pattern[t], 2 * pattern[t]) >>)]

GradedLeagues == { PatternLeague(pattern) : pattern \in ValuePatterns }

LeagueInit ==
    /\ \E ts \in GradedLeagues \cup SmallLeagues : ConstructedWith(ts)
    /\ MatchupConstructedWith(NoArguments)
    /\ NoScheduleAnalyzer

LeagueNext ==
    \E team_id \in 1..(MaxLeague + 1) :
        /\ team_id <= Len(teams) + 1
        /\ AnalyzeTeamCategories(team_id)

LeagueSpec == LeagueInit /\ [][LeagueNext]_vars

(***************************************************************************)
(* Properties of analyze_team_categories                                   *)
(***************************************************************************)
\* the last call was analyze_team_categories and it returned a success record
Analyzed == last_call.op = "analyze_team_categories" /\ ~IsError(result)

\* the category entries of a success record r, each with its type and name
Entries(r) ==
    { [type |-> "batting", cat |-> e.k, e |-> e.v] : e \in Range(r.categories.batting) }
        \cup { [type |-> "pitching", cat |-> e.k, e |-> e.v] :
                   e \in Range(r.categories.pitching) }

\* the entries of the success records of every team of the league
LeagueEntries ==
    UNION { Entries(r) : r \in { a \in { analyze_team_categories(t.team_id) :
                                              t \in Range(teams) } : ~IsError(a) } }

\* the league standard deviation of the category of entry x
StdOf(x) == DictGet(DictGet(league_stats, x.type), x.cat).std

Inverted(x) == x.type = "pitching" /\ x.cat \in LowerIsBetter

\* how many standard deviations the value of x lies below (above) the mean
StdsBelow(x) == Div(Sub(x.e.league_mean, x.e.value), StdOf(x))

StdsAbove(x) == Div(Sub(x.e.value, x.e.league_mean), StdOf(x))

\* x is a lower-is-better entry, y a higher-is-better one, and x lies as far
\* below its league mean as y lies above its own
Mirrored(x, y) ==
    /\ Inverted(x) /\ ~Inverted(y)
    /\ Gt(StdOf(x), IntNum(0)) /\ Gt(StdOf(y), IntNum(0))
    /\ NumEq(StdsBelow(x), StdsAbove(y))

\* C3: an ERA, WHIP or BB/9 entry whose value lies k standard deviations
\* below the league mean has the percentile and the tier of every
\* higher-is-better entry of the league whose value lies k standard
\* deviations above its mean.
C3_InversionSymmetry ==
    Analyzed =>
        \A y \in LeagueEntries : \A x \in Entries(result) :
            Mirrored(x, y) =>
                /\ NumEq(x.e.percentile, y.e.percentile)
                /\ x.e.strength = y.e.strength

\* an ERA entry one standard deviation below the mean is rated Strong, as is
\* the home-run entry one standard deviation above it
C3_Witness ==
    /\ Analyzed
    /\ \E y \in LeagueEntries : \E x \in Entries(result) :
           /\ Mirrored(x, y)
           /\ x.cat = "ERA" /\ y.cat = "HR"
           /\ NumEq(StdsBelow(x), IntNum(1))
           /\ x.e.z_score = IntNum(1)
           /\ x.e.strength = "Strong"

\* C4: an entry whose league standard deviation is 0 reports z_score 0 and
\* percentile exactly 50, in the batting and in the pitching categories.
C4_ZeroSpread ==
    Analyzed =>
        \A x \in Entries(result) :
            NumEq(StdOf(x), IntNum(0)) =>
                x.e.z_score = IntNum(0) /\ x.e.percentile = IntNum(50)

\* a league of several teams with identical values, analyzed in a batting
\* and in an inverted pitching category
C4_Witness ==
    /\ Analyzed
    /\ Len(teams) >= 2
    /\ \E x \in Entries(result) : \E y \in Entries(result) :
           /\ x.type = "batting" /\ x.cat = "HR" /\ Inverted(y)
           /\ NumEq(StdOf(x), IntNum(0)) /\ NumEq(StdOf(y), IntNum(0))
           /\ x.e.percentile = IntNum(50) /\ y.e.percentile = IntNum(50)

\* p is clamp((z + 3) / 6, 0, 1) * 100
ClampedAffine(z, p) ==
    /\ Ge(p, IntNum(0)) /\ Le(p, IntNum(100))
    /\ Le(z, IntNum(-3)) => NumEq(p, IntNum(0))
    /\ Ge(z, IntNum(3)) => NumEq(p, IntNum(100))
    /\ (Gt(z, IntNum(-3)) /\ Lt(z, IntNum(3))) =>
           NumEq(Mul(p, IntNum(6)), Mul(Add(z, IntNum(3)), IntNum(100)))

\* C5: every reported percentile is clamp((z + 3) / 6, 0, 1) * 100 of the
\* reported z_score: within [0, 100], 0 for z <= -3, 100 for z >= 3, and
\* non-decreasing in z over the entries of the league.
C5_PercentileClamp ==
    Analyzed =>
        /\ \A x \in Entries(result) : ClampedAffine(x.e.z_score, x.e.percentile)
        /\ \A y \in LeagueEntries : \A x \in Entries(result) :
               Le(x.e.z_score, y.e.z_score) => Le(x.e.percentile, y.e.percentile)

\* a result with an entry below z = -3 and one above z = 3
C5_Witness ==
    /\ Analyzed
    /\ \E x \in Entries(result) : \E y \in Entries(result) :
           /\ Lt(x.e.z_score, IntNum(-3)) /\ x.e.percentile = IntNum(0)
           /\ Gt(y.e.z_score, IntNum(3)) /\ y.e.percentile = IntNum(100)

\* tier is the tier of percentile p under the thresholds 80, 60, 40, 20
TierOf(p, tier) ==
    /\ tier = "Very Strong" <=> Ge(p, IntNum(80))
    /\ tier = "Strong" <=> (Ge(p, IntNum(60)) /\ Lt(p, IntNum(80)))
    /\ tier = "Average" <=> (Ge(p, IntNum(40)) /\ Lt(p, IntNum(60)))
    /\ tier = "Weak" <=> (Ge(p, IntNum(20)) /\ Lt(p, IntNum(40)))
    /\ tier = "Very Weak" <=> Lt(p, IntNum(20))

\* C6: the tier of every entry, batting or pitching, follows from its
\* percentile alone: >= 80 Very Strong, >= 60 Strong, >= 40 Average,
\* >= 20 Weak, otherwise Very Weak.
C6_TierThresholds ==
    Analyzed =>
        \A x \in Entries(result) : TierOf(x.e.percentile, x.e.strength)

\* a batting entry at exactly 80 and a pitching entry at exactly 20
C6_Witness ==
    /\ Analyzed
    /\ \E x \in Entries(result) : \E y \in Entries(result) :
           /\ x.type = "batting" /\ NumEq(x.e.percentile, IntNum(80))
           /\ x.e.strength = "Very Strong"
           /\ y.type = "pitching" /\ NumEq(y.e.percentile, IntNum(20))
           /\ y.e.strength = "Weak"

\* the names in entries whose tier is in tiers
NamesRated(entries, tiers) ==
    { e.k : e \in { x \in Range(entries) : x.v.strength \in tiers } }

\* strong and weak list exactly the Strong/Very Strong and the Weak/Very
\* Weak names of entries, once each
ListsMatchTiers(entries, strong, weak) ==
    /\ Range(strong) = NamesRated(entries, {"Strong", "Very Strong"})
    /\ Range(weak) = NamesRated(entries, {"Weak", "Very Weak"})
    /\ Len(strong) = Cardinality(Range(strong))
    /\ Len(weak) = Cardinality(Range(weak))
    /\ Range(strong) \cap Range(weak) = {}
    /\ \A e \in Range(entries) :
           e.k \notin (Range(strong) \cup Range(weak)) <=> e.v.strength = "Average"

\* C7: in a success result, for batting and for pitching, strengths lists
\* exactly the categories rated Strong or Very Strong, weaknesses exactly
\* those rated Weak or Very Weak, the lists are disjoint, and a category is
\* in neither exactly when it is rated Average.
C7_StrengthsAndWeaknesses ==
    Analyzed =>
        \A type \in {"batting", "pitching"} :
            ListsMatchTiers(result.categories[type], result.strengths[type],
                            result.weaknesses[type])

\* a result with a strength, a weakness and an Average category
C7_Witness ==
    /\ Analyzed
    /\ result.strengths.batting # <<>>
    /\ result.weaknesses.pitching # <<>>
    /\ \E e \in Range(result.categories.batting) : e.v.strength = "Average"
    /\ \E e \in Range(result.categories.pitching) : e.v.strength = "Very Strong"

(***************************************************************************)
(* Properties of the analyzer's cache and of its error records             *)
(***************************************************************************)
\* C2: team_dfs, categories and league_stats are what the latest team list
\* alone determines, also when that list is empty or has no roster.
C2_CacheFollowsLatestTeams ==
    /\ team_dfs = BuildTeamDfs(<<>>, teams)
    /\ categories \in { <<>>, _identify_categories(teams, team_dfs) }
    /\ league_stats = _calculate_league_stats(teams, team_dfs, categories, <<>>)

Missing(team_id) == ~DictHas(team_dfs, team_id)

\* C9: for a missing team the three operations return, without raising, one
\* error record, and that record tells which team id was missing: it is not
\* the record returned for another missing team id.
C9_ErrorNamesMissingTeam ==
    (last_call.op # "none" /\ last_call.op # "set_teams" /\ Missing(last_call.team_id)) =>
        /\ IsError(result)
        /\ result = analyze_team_categories(last_call.team_id)
        /\ \A other \in TeamIds \ {last_call.team_id} :
               Missing(other) => analyze_team_categories(other) # result

\* an error record for a missing team that names no team
C9_AnonymousError ==
    /\ last_call.op = "analyze_team_categories"
    /\ teams # <<>>
    /\ Missing(last_call.team_id)
    /\ result = [error |-> "Team data not available"]

\* a baseline that outlives the teams it was computed from
C2_StaleBaseline == teams = <<>> /\ team_dfs = <<>> /\ league_stats # <<>>

(***************************************************************************)
(* Properties of the matchup analyzer                                      *)
(***************************************************************************)
\* the names of the SP-eligible pitchers of the team roster, in roster order
EligiblePitchers ==
    IF team_roster_df = <<>> THEN <<>>
    ELSE Names(AtPosition(team_roster_df[1], SP).rows)

\* starting_pitchers has a projection column
HasProjections ==
    team_roster_df # <<>> /\ ProjCols(AtPosition(team_roster_df[1], SP)) # <<>>

\* the last call was optimize_pitcher_starts on a roster with a starter
StartsOptimized ==
    matchup_call.op = "optimize_pitcher_starts" /\ EligiblePitchers # <<>>

Smaller(x, y) == IF x < y THEN x ELSE y

\* recommended and benched are disjoint and together exactly eligible
Partition(recommended, benched, eligible) ==
    /\ Range(recommended) \cap Range(benched) = {}
    /\ Range(recommended) \cup Range(benched) = Range(eligible)
    /\ Len(recommended) + Len(benched) = Len(eligible)

HeadCount(max_starts, n) ==
    IF max_starts >= 0 THEN Smaller(max_starts, n)
    ELSE IF n + max_starts > 0 THEN n + max_starts ELSE 0

C10_PopulatedOrTaggedError ==
    matchup_call.op # "none" =>
        /\ ~IsRaise(matchup_result)
        /\ DOMAIN matchup_result # {}

\* analyze_position_matchups raised on a team roster without an opponent
C10_PositionMatchupsRaise ==
    /\ matchup_call.op = "analyze_position_matchups"
    /\ team_roster_df # <<>> /\ opponent_roster_df = <<>>
    /\ IsRaise(matchup_result)

(***************************************************************************)
(* Properties of the position-by-position analysis                         *)
(***************************************************************************)
\* the positions analyze_position_matchups reports on
FixedPositions == {"C", "1B", "2B", "3B", "SS", "OF", "UTIL", "SP", "RP"}

\* the summed projected points of the players of df[1] at position pos
SummedProjection(df, pos) ==
    _calculate_position_projection(AtPosition(df[1], DictGet(PositionChars, pos)))

\* the advantage and difference of entry follow from the two sums
AdvantageOf(entry, team_proj, opp_proj) ==
    /\ entry.advantage = "team" <=> Gt(team_proj, opp_proj)
    /\ entry.advantage = "opponent" <=> Gt(opp_proj, team_proj)
    /\ entry.advantage = "even" <=> NumEq(team_proj, opp_proj)
    /\ \/ NumEq(entry.difference, Sub(team_proj, opp_proj))
       \/ NumEq(entry.difference, Sub(opp_proj, team_proj))
    /\ Ge(entry.difference, IntNum(0))

\* analyze_position_matchups was called with both rosters available
BothRostersAnalyzed ==
    /\ matchup_call.op = "analyze_position_matchups"
    /\ team_roster_df # <<>>
    /\ opponent_roster_df # <<>>

\* C11: with both rosters available analyze_position_matchups returns one
\* entry for each of C, 1B, 2B, 3B, SS, OF, UTIL, SP, RP, whose advantage is
\* team, opponent or even as the team's summed projected points exceed,
\* fall below or equal the opponent's, and whose difference is the absolute
\* difference of the two sums.
C11_AdvantagePerPosition ==
    BothRostersAnalyzed =>
        /\ ~IsRaise(matchup_result)
        /\ DOMAIN matchup_result = FixedPositions
        /\ \A pos \in FixedPositions :
               AdvantageOf(matchup_result[pos],
                           SummedProjection(team_roster_df, pos),
                           SummedProjection(opponent_roster_df, pos))

\* both rosters hold players with projections (the team's catcher projects
\* 5 points, the opponent's 7) and the call returned the empty dict
C11_EmptyWithBothRosters ==
    /\ BothRostersAnalyzed
    /\ Gt(SummedProjection(opponent_roster_df, "C"),
          SummedProjection(team_roster_df, "C"))
    /\ matchup_result = <<>>

(***************************************************************************)
(* calculate_adjusted_score, the nested function of                        *)
(* optimize_pitcher_starts, called on its own                              *)
(***************************************************************************)
\* the locals opponent_factor and ballpark_factor of calculate_adjusted_score
\* at its return statement, and the value it returns
ScoreLocals(base_score, opponent, ballpark, home_game, ratings, parks) ==
    [opponent_factor |-> opponent_factor(opponent, ratings),
     ballpark_factor |-> ballpark_factor(ballpark, home_game, parks),
     value |-> calculate_adjusted_score(base_score, opponent, ballpark, home_game,
                                        ratings, parks)]

\* pitcher_data inside the branch "if proj_cols": the rows whose projection
\* calculate_adjusted_score is called with
ScoredPitchers ==
    IF team_roster_df = <<>> THEN <<>>
    ELSE IF ProjCols(AtPosition(team_roster_df[1], SP)) = <<>> THEN <<>>
    ELSE InitialPitcherData(AtPosition(team_roster_df[1], SP).rows,
                            ProjCols(AtPosition(team_roster_df[1], SP))[1])

\* one call calculate_adjusted_score(base_score, opponent, ballpark,
\* home_game) while the tables are those of use_mlb_api
CalculateAdjustedScore(base_score, opponent, ballpark, home_game, use_mlb_api) ==
    MatchupReturns("calculate_adjusted_score",
                   [base_score |-> base_score, opponent |-> opponent,
                    ballpark |-> ballpark, home_game |-> home_game,
                    use_mlb_api |-> use_mlb_api],
                   ScoreLocals(base_score, opponent, ballpark, home_game,
                               team_ratings(use_mlb_api),
                               ballpark_factors(use_mlb_api)))

\* a starter projecting ten points and one projecting none
ScoredRoster == << Projected(2, <<SP>>, 10), Projected(3, <<SP>>, 0) >>

\* opponents: strong and weak offenses, three teams rated 99 and 100 of
\* which one strikes out often, one team of both tables, and an
\* abbreviation that is in no table
Opponents == { "LAD", "NYY", "TB", "ARI", "LAA", "CLE", "OAK", "JPN" }

\* a hitter-friendly park beyond both clamps (1.38), one inside the road
\* clamp (1.25), a pitcher-friendly park (0.94), and a label of the kind
\* optimize_pitcher_starts passes
Ballparks == { "Coors Field", "Fenway Park", "Tropicana Field", "NYY home park" }

ScoreInit ==
    /\ ConstructedWith(<<>>)
    /\ MatchupConstructedWith([NoArguments EXCEPT !.team = << MkTeam(1, ScoredRoster) >>])
    /\ NoScheduleAnalyzer

ScoreNext ==
    \E row \in Range(ScoredPitchers) :
        \E opponent \in Opponents, ballpark \in Ballparks, home_game \in BOOLEAN,
           use_mlb_api \in BOOLEAN :
            CalculateAdjustedScore(row.base_score, opponent, ballpark, home_game,
                                   use_mlb_api)

ScoreSpec == ScoreInit /\ [][ScoreNext]_vars

(***************************************************************************)
(* Properties of the adjusted score                                        *)
(***************************************************************************)
\* the last call was calculate_adjusted_score
ScoreCalled == matchup_call.op = "calculate_adjusted_score"

\* the tables the last call of calculate_adjusted_score read
RatingsRead == team_ratings(matchup_call.arg.use_mlb_api)

ParksRead == ballpark_factors(matchup_call.arg.use_mlb_api)

\* the last call named a ballpark of the table
ParkKnown == ScoreCalled /\ DictHas(ParksRead, matchup_call.arg.ballpark)

\* the last call named an opponent of the table
OpponentKnown == ScoreCalled /\ DictHas(RatingsRead, matchup_call.arg.opponent)

Clamp(x, lo, hi) == PyMax(lo, PyMin(hi, x))

\* the home and road factors as the specification states them
HomeFactor(park_factor) ==
    Clamp(Div(IntNum(1), park_factor), Rat(8, 10), Rat(13, 10))

RoadFactor(park_factor) ==
    Clamp(Div(IntNum(1),
              Add(Mul(Sub(park_factor, IntNum(1)), Rat(6, 10)), IntNum(1))),
          Rat(85, 100), Rat(125, 100))

RatingRead == DictGet(RatingsRead, matchup_call.arg.opponent)

\* clamp(2 - opponent_offensive_rating/100, 0.7, 1.2)
ClampedRating(offensive) ==
    Clamp(Sub(IntNum(2), Div(offensive, IntNum(100))), Rat(7, 10), Rat(12, 10))

\* no team of the table with an offense at least as strong as offensive
\* gets a factor above factor
NeverIncreases(offensive, factor, ratings) ==
    \A other \in Range(DictKeys(ratings)) :
        Ge(DictGet(ratings, other).offensive, offensive)
            => Le(opponent_factor(other, ratings), factor)

\* C13: for every opponent of the ratings table the opponent factor equals
\* clamp(2 - offensive rating/100, 0.7, 1.2): it lies in [0.7, 1.2], is
\* exactly 1.0 for an offensive rating of 100, and never increases when the
\* offensive rating increases.
C13_OpponentFactor ==
    OpponentKnown =>
        /\ NumEq(matchup_result.opponent_factor, ClampedRating(RatingRead.offensive))
        /\ Ge(matchup_result.opponent_factor, Rat(7, 10))
        /\ Le(matchup_result.opponent_factor, Rat(12, 10))
        /\ NumEq(RatingRead.offensive, IntNum(100))
               => NumEq(matchup_result.opponent_factor, IntNum(1))
        /\ NeverIncreases(RatingRead.offensive, matchup_result.opponent_factor,
                          RatingsRead)

\* an opponent rated exactly 100 that strikes out in more than 24% of its
\* plate appearances got the opponent factor 1.05
C13_AverageOffenseHighStrikeouts ==
    /\ OpponentKnown
    /\ NumEq(RatingRead.offensive, IntNum(100))
    /\ Gt(RatingRead.strikeout_rate, IntNum(24))
    /\ NumEq(matchup_result.opponent_factor, Rat(105, 100))

\* the next call is the last one with home_game flipped
SameStartOtherSide ==
    /\ ScoreCalled
    /\ matchup_call'.op = "calculate_adjusted_score"
    /\ matchup_call'.arg = [matchup_call.arg EXCEPT !.home_game = ~@]

\* the last call had a non-zero baseline and a ballpark of the table whose
\* park factor is not 1.0
ParkMatters ==
    /\ ParkKnown
    /\ ~NumEq(matchup_call.arg.base_score, IntNum(0))
    /\ ~NumEq(DictGet(ParksRead, matchup_call.arg.ballpark), IntNum(1))

RosterOptimized ==
    matchup_call.op = "optimize_pitcher_starts" /\ team_roster_df # <<>>

IsRanked(r) == "pitcher_schedule" \in DOMAIN r

\* the fields of two ranked results that C16 compares; the schedule is a
\* dict, which Python compares without regard to the order of its keys
SameStarts(r1, r2) ==
    /\ r1.recommended_pitchers = r2.recommended_pitchers
    /\ r1.benched_pitchers = r2.benched_pitchers
    /\ AsRecord(r1.pitcher_schedule) = AsRecord(r2.pitcher_schedule)
    /\ NumEq(r1.adjusted_points, r2.adjusted_points)

\* optimize_pitcher_starts is called again with the same cap on the same
\* roster, tables and probable-starter feed
SameCallAgain ==
    /\ matchup_call.op = "optimize_pitcher_starts"
    /\ matchup_call' = matchup_call
    /\ team_roster_df' = team_roster_df

\* C16: two calls of optimize_pitcher_starts with the same team roster, the
\* same max_starts and the same ratings, ballpark and probable-starter data
\* return the same recommended_pitchers, benched_pitchers, pitcher_schedule
\* and adjusted_points, also for pitchers without a probable-start entry.
C16_SameInputsSameStarts ==
    [][(SameCallAgain /\ IsRanked(matchup_result))
           => /\ IsRanked(matchup_result')
              /\ SameStarts(matchup_result, matchup_result')]_vars

\* a call that read an empty probable-starter feed scheduled a start on a
\* drawn date against a drawn opponent
C16_DrawnSchedule ==
    /\ matchup_call.op = "optimize_pitcher_starts"
    /\ matchup_call.probable_starters = <<>>
    /\ IsRanked(matchup_result)
    /\ \E i \in DOMAIN matchup_result.pitcher_schedule :
           /\ matchup_result.pitcher_schedule[i].v.date = 7
           /\ matchup_result.pitcher_schedule[i].v.opponent = "OAK"

(***************************************************************************)
(* The category analyzer's recommendations on leagues with at-bats         *)
(***************************************************************************)
STAT_ab == <<"a", "b">>

\* a batter with home runs and at-bats
Hitter(id, hr, ab) ==
    MkPlayer(id, <<OF>>, << [k |-> STAT_hr, v |-> Scalar(hr)],
                            [k |-> STAT_ab, v |-> Scalar(ab)] >>)

\* team t with one batter and one pitcher whose statistics are those of v
AdvisedTeam(t, v) ==
    MkTeam(t, << Hitter(10 * t + 1, v.hr, v.ab),
                 StaffPitcher(10 * t + 2, v.era, v.whip, v.era) >>)

\* the statistics a team can have
TeamValues ==
    { [hr |-> 1, ab |-> 4, era |-> 3, whip |-> 1],
      [hr |-> 2, ab |-> 2, era |-> 4, whip |-> 1],
      [hr |-> 3, ab |-> 6, era |-> 2, whip |-> 2] }

\* every league of two such teams, and three leagues of three
AdvisedLeagues ==
    { << AdvisedTeam(1, v), AdvisedTeam(2, w) >> : v, w \in TeamValues }
    \cup { << AdvisedTeam(1, u), AdvisedTeam(2, v), AdvisedTeam(3, w) >> :
               u \in TeamValues,
               v \in { [hr |-> 2, ab |-> 2, era |-> 4, whip |-> 1] },
               w \in { [hr |-> 3, ab |-> 6, era |-> 2, whip |-> 2] } }

\* the free-agent lists a caller passes: none; a batter without statistics
\* among two batters and two pitchers; six batters, two of them with equal
\* at-bats, and two pitchers
AdvisedFreeAgents ==
    { <<>>,
      << Hitter(81, 5, 7), NoStats(82), StaffPitcher(83, 3, 1, 2),
         StaffPitcher(84, 2, 2, 1), Hitter(85, 2, 9) >>,
      << Hitter(91, 4, 10), Hitter(92, 9, 11), Hitter(93, 1, 12),
         StaffPitcher(94, 3, 1, 1), Hitter(95, 7, 13), Hitter(96, 3, 13),
         Hitter(97, 8, 15), StaffPitcher(98, 2, 2, 2) >> }

AdviceInit ==
    /\ \E ts \in AdvisedLeagues : ConstructedWith(ts)
    /\ MatchupConstructedWith(NoArguments)
    /\ NoScheduleAnalyzer

AdviceNext ==
    \/ \E team_id \in 1..3, free_agents \in AdvisedFreeAgents :
           RecommendCategoryImprovements(team_id, free_agents)
    \/ \E team_id \in 1..3 : IdentifyTradeTargets(team_id)

AdviceSpec == AdviceInit /\ [][AdviceNext]_vars

(***************************************************************************)
(* Properties of the recommendations                                       *)
(***************************************************************************)
\* the last call was recommend_category_improvements and it succeeded
Advised ==
    /\ last_call.op = "recommend_category_improvements"
    /\ ~IsError(result)
    /\ ~IsRaise(result)

\* C17: in every success result of recommend_category_improvements,
\* improvement_strategies[type] has an entry for exactly the categories of
\* weaknesses[type], with or without free agents; without free agents
\* free_agent_recommendations is empty for both types, and the call does
\* not raise.
C17_StrategyPerWeakness ==
    last_call.op = "recommend_category_improvements" =>
        /\ ~IsRaise(result)
        /\ Advised =>
               /\ \A type \in {"batting", "pitching"} :
                      Range(DictKeys(result.improvement_strategies[type]))
                          = Range(result.weaknesses[type])
               /\ last_call.free_agents = <<>> =>
                      /\ result.free_agent_recommendations.batting = <<>>
                      /\ result.free_agent_recommendations.pitching = <<>>

\* the team is weak in at-bats (AB) and got no strategy for them
C17_NoStrategyForAtBats ==
    /\ Advised
    /\ "AB" \in Range(result.weaknesses.batting)
    /\ "AB" \notin Range(DictKeys(result.improvement_strategies.batting))
    /\ "HR" \in Range(DictKeys(result.improvement_strategies.batting))

\* value x ranks no worse than value y; a missing value (NaN) ranks last
NoWorse(x, y, ascending) ==
    \/ IsNaN(y)
    \/ /\ ~IsNaN(x)
       /\ IF ascending THEN Le(x, y) ELSE Ge(x, y)

\* the record rec was made from the row: same name, positions and value
MadeFrom(rec, row, col) ==
    /\ rec.name = Cell(row, COL_name)
    /\ rec.positions = Cell(row, COL_positions)
    /\ IsNaN(rec.value) = IsNaN(Cell(row, col))
    /\ IsNaN(rec.value) \/ NumEq(rec.value, Cell(row, col))

\* recs lists min(5, number of rows) different rows of the pool, best first,
\* and no row left out ranks better than a listed one
BestOfPool(recs, rows, col, ascending) ==
    /\ Len(recs) <= 5
    /\ Len(recs) = Smaller(5, Len(rows))
    /\ \A m \in DOMAIN recs : \E j \in DOMAIN rows : MadeFrom(recs[m], rows[j], col)
    /\ \A m, n \in DOMAIN recs : recs[m].name = recs[n].name => m = n
    /\ \A m \in 1..(Len(recs) - 1) :
           NoWorse(recs[m].value, recs[m + 1].value, ascending)
    /\ \A j \in DOMAIN rows :
           (\A m \in DOMAIN recs : recs[m].name # Cell(rows[j], COL_name))
               => \A m \in DOMAIN recs :
                      NoWorse(recs[m].value, Cell(rows[j], col), ascending)

\* the positions of rec make it a pitcher: SP or RP, in any case
PitcherRecord(rec) ==
    ContainsCI(SP, rec.positions) \/ ContainsCI(RP, rec.positions)

\* every list of recommended[type] is the best of the free agents fa_df of
\* that type
BestFreeAgents(recommended, type, fa_df) ==
    \A i \in DOMAIN recommended[type] :
        /\ \A m \in DOMAIN recommended[type][i].v :
               PitcherRecord(recommended[type][i].v[m]) = (type = "pitching")
        /\ BestOfPool(recommended[type][i].v,
                      SelectSeq(fa_df.rows,
                                LAMBDA row : IsPitcherRow(row) = (type = "pitching")),
                      DictGet(DictGet(categories, type), recommended[type][i].k),
                      recommended[type][i].k \in {"ERA", "WHIP", "BB/9"})

\* the names of a list of recommended players
RecordNames(recs) == [m \in DOMAIN recs |-> recs[m].name]

\* C18: with free agents supplied, the list recommended for a weak category
\* has at most 5 entries, all of them free agents of the matching
\* sub-population (SP- or RP-eligible for pitching categories, all others
\* for batting categories), they are the best free agents by raw category
\* value, and they are in ascending order for ERA, WHIP and BB/9 and in
\* descending order for every other category.
C18_TopFreeAgents ==
    (Advised /\ last_call.free_agents # <<>>) =>
        /\ BestFreeAgents(result.free_agent_recommendations, "batting",
                          players_to_dataframe(last_call.free_agents))
        /\ BestFreeAgents(result.free_agent_recommendations, "pitching",
                          players_to_dataframe(last_call.free_agents))

\* six free-agent batters, two free-agent pitchers and a team weak in AB
\* and ERA: five batters are recommended for AB, the one with 15 at-bats
\* first and the two with 13 at-bats next, and the two pitchers for ERA, the
\* lower ERA first
C18_Witness ==
    /\ Advised
    /\ Len(last_call.free_agents) = 8
    /\ DictHas(result.free_agent_recommendations.batting, "AB")
    /\ DictHas(result.free_agent_recommendations.pitching, "ERA")
    /\ Len(DictGet(result.free_agent_recommendations.batting, "AB")) = 5
    /\ DictGet(result.free_agent_recommendations.batting, "AB")[1].name = PlayerName(97)
    /\ DictGet(result.free_agent_recommendations.batting, "AB")[2].name = PlayerName(96)
    /\ RecordNames(DictGet(result.free_agent_recommendations.pitching, "ERA"))
           = << PlayerName(98), PlayerName(94) >>

(***************************************************************************)
(* Properties of the trade targets                                         *)
(***************************************************************************)
\* the last call was identify_trade_targets(team_id) for a team whose
\* analysis succeeds
TargetsSought ==
    /\ last_call.op = "identify_trade_targets"
    /\ ~IsError(analyze_team_categories(last_call.team_id))

\* the rows of the batters or pitchers of team t
SubRosterRows(type, t) == SubRoster(type, DictGet(team_dfs, t.team_id)).rows

\* candidates holds, for each of the strong teams, min(2, players) of its
\* players of the type, annotated with that team's name
TopTwoOfEach(candidates, type, strong_teams) ==
    /\ \A m \in DOMAIN candidates :
           \E j \in DOMAIN strong_teams :
               /\ candidates[m].owner_team = strong_teams[j].name
               /\ candidates[m].name \in Range(Names(SubRosterRows(type, strong_teams[j])))
    /\ \A j \in DOMAIN strong_teams :
           Len(SelectSeq(candidates, LAMBDA c : c.owner_team = strong_teams[j].name))
               = Smaller(2, Len(SubRosterRows(type, strong_teams[j])))

\* C19: for a team whose analysis succeeds identify_trade_targets returns a
\* success record and does not raise; a weak category has candidates
\* exactly when another team is rated Strong or Very Strong in it, namely
\* the top 2 players of each such team, annotated with the owning team's
\* name, and none of them from the analyzed team.
C19_TradeTargets ==
    TargetsSought =>
        /\ ~IsRaise(result)
        /\ ~IsError(result)
        /\ \A type \in {"batting", "pitching"} :
               /\ \A i \in DOMAIN result.trade_targets[type] :
                      /\ TopTwoOfEach(result.trade_targets[type][i].v, type,
                                      StrongTeams(last_call.team_id, type,
                                                  result.trade_targets[type][i].k))
                      /\ \A m \in DOMAIN result.trade_targets[type][i].v :
                             result.trade_targets[type][i].v[m].owner_team
                                 # result.team_name
               /\ \A cat \in Range(analyze_team_categories(last_call.team_id).weaknesses[type]) :
                      StrongTeams(last_call.team_id, type, cat) # <<>>
                          => DictHas(result.trade_targets[type], cat)

\* the analyzed team is weak in a category in which another team is strong,
\* and the call raised AttributeError
C19_RaisesOnStrongTeam ==
    /\ TargetsSought
    /\ \E cat \in Range(analyze_team_categories(last_call.team_id).weaknesses.batting) :
           StrongTeams(last_call.team_id, "batting", cat) # <<>>
    /\ IsRaise(result)

(***************************************************************************)
(* recommend_acquisitions on rosters, leagues and free-agent pools         *)
(***************************************************************************)
\* the user's team: none; a catcher and two starters; a catcher whose
\* projection is exactly 1.2 standard deviations above the catchers of
\* CatcherLeague; a starter without a projection column
AcquiringTeams ==
    { <<>>,
      << MkTeam(1, ProjectedRoster) >>,
      << MkTeam(1, << Projected(1, << <<"C">> >>, 17) >>) >>,
      << MkTeam(1, << Pitcher(2, 3, 2) >>) >> }

\* four catchers projecting 0, 0, 0 and 20 points (mean 5, sample standard
\* deviation 10) and three starters
CatcherLeague ==
    << Projected(31, << <<"C">> >>, 0), Projected(32, << <<"C">> >>, 0),
       Projected(33, << <<"C">> >>, 0), Projected(34, << <<"C">> >>, 20),
       Projected(2, <<SP>>, 10), Projected(3, <<SP, RP>>, 8),
       Projected(35, <<SP>>, 2) >>

\* the free agents: none; four catchers and six starters, the last two
\* starters with equal projections; a catcher and an outfielder; a starter
\* without a projection column
AcquirablePools ==
    { <<>>,
      << Projected(41, << <<"C">> >>, 8), Projected(42, << <<"C">> >>, 2),
         Projected(43, << <<"C">> >>, 9), Projected(44, << <<"C">> >>, 6),
         Projected(51, <<SP>>, 7), Projected(52, <<SP>>, 12),
         Projected(53, <<SP>>, 5), Projected(54, <<SP>>, 11),
         Projected(55, <<SP>>, 9), Projected(56, <<SP>>, 5) >>,
      << Projected(41, << <<"C">> >>, 8), Projected(45, <<OF>>, 4) >>,
      << Pitcher(57, 3, 2) >> }

AcquisitionArguments ==
    { [matchup |-> <<>>, team |-> t, opponent |-> <<>>, all_players |-> a,
       free_agents |-> f] :
        t \in AcquiringTeams,
        a \in { <<>>, CatcherLeague, LeaguePlayers },
        f \in AcquirablePools }

AcquisitionInit ==
    /\ ConstructedWith(<<>>)
    /\ \E args \in AcquisitionArguments : MatchupConstructedWith(args)
    /\ NoScheduleAnalyzer

AcquisitionNext == \E limit \in {1, 8} : RecommendAcquisitions(limit)

AcquisitionSpec == AcquisitionInit /\ [][AcquisitionNext]_vars

(***************************************************************************)
(* Properties of the acquisitions                                          *)
(***************************************************************************)
\* recommend_acquisitions was called with a team roster and free agents
AcquisitionsSought ==
    /\ matchup_call.op = "recommend_acquisitions"
    /\ team_roster_df # <<>>
    /\ free_agents_df # <<>>

\* the positions recommend_acquisitions looks at
AcquisitionPositions == {"C", "1B", "2B", "3B", "SS", "OF", "SP"}

\* the strength percentile of pos exists and is below 0.7
FlaggedWeak(strengths, pos) ==
    /\ DictHas(strengths, pos)
    /\ DictGet(strengths, pos).kind = "entry"
    /\ Lt(DictGet(strengths, pos).strength, Rat(7, 10))

\* the free agents eligible at pos, as long as they have a projection column
EligibleFreeAgents(pos) ==
    IF ProjCols(AtPosition(free_agents_df[1], DictGet(PositionChars, pos))) = <<>>
    THEN <<>>
    ELSE AtPosition(free_agents_df[1], DictGet(PositionChars, pos)).rows

\* recs lists min(n, number of rows) different rows with their projections,
\* the highest first, and no row left out has a higher projection
TopProjected(recs, rows, col, n) ==
    /\ Len(recs) <= n
    /\ Len(recs) = Smaller(n, Len(rows))
    /\ \A m \in DOMAIN recs :
           \E j \in DOMAIN rows :
               /\ recs[m].name = Cell(rows[j], COL_name)
               /\ NumEq(recs[m].projection, Cell(rows[j], col))
    /\ \A m, k \in DOMAIN recs : recs[m].name = recs[k].name => m = k
    /\ \A m \in 1..(Len(recs) - 1) :
           NoWorse(recs[m].projection, recs[m + 1].projection, FALSE)
    /\ \A j \in DOMAIN rows :
           (\A m \in DOMAIN recs : recs[m].name # Cell(rows[j], COL_name))
               => \A m \in DOMAIN recs :
                      NoWorse(recs[m].projection, Cell(rows[j], col), FALSE)

\* the result has a list for pos exactly if pos is flagged weak and has
\* eligible free agents, and the list is their top 3
WeakPositionServed(strengths, pos) ==
    /\ pos \in DOMAIN matchup_result
           <=> (FlaggedWeak(strengths, pos) /\ EligibleFreeAgents(pos) # <<>>)
    /\ pos \in DOMAIN matchup_result
           => TopProjected(matchup_result[pos], EligibleFreeAgents(pos),
                           ProjCols(free_agents_df[1])[1], 3)

\* the result has the list streaming_sp, the top 5 of the SP-eligible free
\* agents
StreamingListed ==
    /\ "streaming_sp" \in DOMAIN matchup_result
    /\ TopProjected(matchup_result.streaming_sp, EligibleFreeAgents("SP"),
                    ProjCols(free_agents_df[1])[1], 5)

\* C20: recommend_acquisitions flags a position among C, 1B, 2B, 3B, SS, OF,
\* SP as weak exactly when its strength percentile is below 0.7, recommends
\* for each weak position at most 3 free agents eligible there, those with
\* the highest projected points in descending order, and always includes a
\* streaming_sp list of at most 5 SP-eligible free agents ranked by
\* projected points.
C20_WeakPositionsAndStreaming ==
    AcquisitionsSought =>
        /\ ~IsRaise(matchup_result)
        /\ \A pos \in AcquisitionPositions :
               WeakPositionServed(_analyze_team_position_strength, pos)
        /\ StreamingListed

\* the free agents are a catcher and an outfielder: the weak position C got
\* its recommendation and the result has no streaming_sp list
C20_NoStreamingList ==
    /\ AcquisitionsSought
    /\ ~IsRaise(matchup_result)
    /\ "C" \in DOMAIN matchup_result
    /\ EligibleFreeAgents("SP") = <<>>
    /\ "streaming_sp" \notin DOMAIN matchup_result

(***************************************************************************)
(* The limit of recommend_acquisitions                                     *)
(***************************************************************************)
RECURSIVE TotalListed(_, _)
\* the number of free agents listed under the keys of a result
TotalListed(r, keys) ==
    IF keys = {} THEN 0
    ELSE LET key == CHOOSE k \in keys : TRUE
         IN  Len(r[key]) + TotalListed(r, keys \ {key})

\* recommend_acquisitions returned its lists
AcquisitionsListed ==
    /\ matchup_call.op = "recommend_acquisitions"
    /\ ~IsRaise(matchup_result)

\* C21: the total number of acquisitions recommended by
\* recommend_acquisitions(limit), over all positions and the streaming list,
\* never exceeds limit.
C21_TotalWithinLimit ==
    AcquisitionsListed =>
        TotalListed(matchup_result, DOMAIN matchup_result) <= matchup_call.arg

\* recommend_acquisitions(1) returned three catchers, three starters and
\* five streaming starters
C21_ElevenForLimitOne ==
    /\ AcquisitionsListed
    /\ matchup_call.arg = 1
    /\ DOMAIN matchup_result = {"C", "SP", "streaming_sp"}
    /\ Len(matchup_result["C"]) = 3
    /\ Len(matchup_result["SP"]) = 3
    /\ Len(matchup_result.streaming_sp) = 5
    /\ TotalListed(matchup_result, DOMAIN matchup_result) = 11

(***************************************************************************)
(* PlayerDataProcessor.players_to_dataframe on nested statistics whose     *)
(* scope and statistic names contain "_"                                   *)
(***************************************************************************)
\* a call players_to_dataframe(t.roster) for a team of the analyzer
PlayersToDataframe(t) ==
    MatchupReturns("players_to_dataframe", teams[t].roster,
                   players_to_dataframe(teams[t].roster))

MaxScopes == 2

MaxStats == 2

ScopeNames == { <<"a">>, <<"a", "_", "b">>, <<"p", "l", "a", "y", "e", "r">> }

StatNames == { <<"b", "_", "c">>, <<"c">>, <<"i", "d">> }

RECURSIVE DistinctSeqs(_, _)
\* the sequences of n different elements of S
DistinctSeqs(S, n) ==
    IF n = 0 THEN { <<>> }
    ELSE UNION { { Append(s, x) : x \in S \ Range(s) } : s \in DistinctSeqs(S, n - 1) }

\* the statistics of one scope: up to MaxStats names, the i-th with the
\* value base + i
ScopeItems(base) ==
    { [i \in DOMAIN names |-> [k |-> names[i], v |-> Scalar(base + i)]] :
          names \in UNION { DistinctSeqs(StatNames, n) : n \in 1..MaxStats } }

RECURSIVE NestedStats(_)
\* stats dicts of n scopes; the values of the j-th scope are 10 * j + i
NestedStats(n) ==
    IF n = 0 THEN { <<>> }
    ELSE { Append(stats, [k |-> scope, v |-> StatDict(items)]) :
               stats \in NestedStats(n - 1), scope \in ScopeNames,
               items \in ScopeItems(10 * n) }

\* the leagues whose one team has one player with up to MaxScopes
\* different scopes
FlattenedLeagues ==
    { << MkTeam(1, << [MkPlayer(7, <<OF>>, <<>>) EXCEPT !.stats = stats] >>) >> :
          stats \in { s \in UNION { NestedStats(n) : n \in 1..MaxScopes } :
                          \A i, j \in DOMAIN s : s[i].k = s[j].k => i = j } }

FlattenInit ==
    /\ \E ts \in FlattenedLeagues : ConstructedWith(ts)
    /\ MatchupConstructedWith(NoArguments)
    /\ NoScheduleAnalyzer

FlattenNext == \E t \in DOMAIN teams : PlayersToDataframe(t)

FlattenSpec == FlattenInit /\ [][FlattenNext]_vars

(***************************************************************************)
(* Properties of the flattened table                                       *)
(***************************************************************************)
Flattened == matchup_call.op = "players_to_dataframe"

\* the column "{scope}_{name}"
StatKey(scope, name) == scope \o <<"_">> \o name

\* the row of df for the i-th player holds every scalar of the player's
\* nested statistics under its column
RecoversScalars(df, i, player) ==
    \A s \in DOMAIN player.stats :
        player.stats[s].v.kind = "dict" =>
            \A m \in DOMAIN player.stats[s].v.items :
                LET item == player.stats[s].v.items[m]
                    key  == StatKey(player.stats[s].k, item.k)
                IN  item.v.kind = "scalar" =>
                        /\ key \in Range(df.columns)
                        /\ Cell(df.rows[i], key) = item.v.val

\* C22: for every player and every (scope, name) pair of its nested stats
\* whose value is a scalar, the row produced by players_to_dataframe holds
\* exactly that value under the column "{scope}_{name}", for all scope and
\* name strings, including ones that contain "_", that coincide with another
\* pair's concatenation or with an identity column name.
C22_RoundTrip ==
    Flattened =>
        \A i \in DOMAIN matchup_call.arg :
            RecoversScalars(matchup_result, i, matchup_call.arg[i])

\* stats {"a": {"b_c": 11}, "a_b": {"c": 21}}: the one column a_b_c holds 21
C22_CollidingKeys ==
    /\ Flattened
    /\ matchup_call.arg[1].stats
           = << [k |-> <<"a">>,
                 v |-> StatDict(<< [k |-> <<"b", "_", "c">>, v |-> Scalar(11)] >>)],
                [k |-> <<"a", "_", "b">>,
                 v |-> StatDict(<< [k |-> <<"c">>, v |-> Scalar(21)] >>)] >>
    /\ Cell(matchup_result.rows[1], <<"a", "_", "b", "_", "c">>) = IntNum(21)
    /\ Len(matchup_result.columns) = 5

(***************************************************************************)
(* src/analysis/schedule_analysis.py: ScheduleAnalyzer                     *)
(*                                                                         *)
(* schedule_analyzer is <<self>> where self has the fields mlb_client      *)
(* (whether a client exists) and the three caches, each <<>> for None or   *)
(* <<table>>.  Dates are day offsets from today.                           *)
(***************************************************************************)
\* get_team_offensive_ratings: the values used when there is no client
fallback_offensive_ratings == <<
    [k |-> "NYY", v |-> [offensive |-> IntNum(112), strikeout_rate |-> Rat(45, 2)]],
    [k |-> "BOS", v |-> [offensive |-> IntNum(108), strikeout_rate |-> IntNum(21)]],
    [k |-> "TB", v |-> [offensive |-> IntNum(103), strikeout_rate |-> Rat(121, 5)]],
    [k |-> "BAL", v |-> [offensive |-> IntNum(96), strikeout_rate |-> Rat(119, 5)]],
    [k |-> "TOR", v |-> [offensive |-> IntNum(105), strikeout_rate |-> Rat(41, 2)]],
    [k |-> "LAD", v |-> [offensive |-> IntNum(115), strikeout_rate |-> Rat(104, 5)]],
    [k |-> "SF", v |-> [offensive |-> IntNum(101), strikeout_rate |-> Rat(231, 10)]],
    [k |-> "SD", v |-> [offensive |-> IntNum(103), strikeout_rate |-> Rat(227, 10)]],
    [k |-> "ARI", v |-> [offensive |-> IntNum(100), strikeout_rate |-> Rat(223, 10)]],
    [k |-> "COL", v |-> [offensive |-> IntNum(95), strikeout_rate |-> Rat(49, 2)]],
    [k |-> "ATL", v |-> [offensive |-> IntNum(110), strikeout_rate |-> Rat(231, 10)]],
    [k |-> "NYM", v |-> [offensive |-> IntNum(102), strikeout_rate |-> Rat(219, 10)]],
    [k |-> "PHI", v |-> [offensive |-> IntNum(106), strikeout_rate |-> Rat(227, 10)]],
    [k |-> "WSH", v |-> [offensive |-> IntNum(94), strikeout_rate |-> Rat(104, 5)]],
    [k |-> "MIA", v |-> [offensive |-> IntNum(90), strikeout_rate |-> Rat(253, 10)]],
    [k |-> "CHC", v |-> [offensive |-> IntNum(98), strikeout_rate |-> Rat(241, 10)]],
    [k |-> "CIN", v |-> [offensive |-> IntNum(101), strikeout_rate |-> Rat(47, 2)]],
    [k |-> "MIL", v |-> [offensive |-> IntNum(100), strikeout_rate |-> Rat(119, 5)]],
    [k |-> "PIT", v |-> [offensive |-> IntNum(92), strikeout_rate |-> Rat(121, 5)]],
    [k |-> "STL", v |-> [offensive |-> IntNum(102), strikeout_rate |-> Rat(99, 5)]],
    [k |-> "HOU", v |-> [offensive |-> IntNum(108), strikeout_rate |-> Rat(39, 2)]],
    [k |-> "TEX", v |-> [offensive |-> IntNum(105), strikeout_rate |-> Rat(231, 10)]],
    [k |-> "LAA", v |-> [offensive |-> IntNum(100), strikeout_rate |-> Rat(247, 10)]],
    [k |-> "OAK", v |-> [offensive |-> IntNum(88), strikeout_rate |-> Rat(249, 10)]],
    [k |-> "SEA", v |-> [offensive |-> IntNum(97), strikeout_rate |-> Rat(128, 5)]],
    [k |-> "CLE", v |-> [offensive |-> IntNum(99), strikeout_rate |-> Rat(106, 5)]],
    [k |-> "DET", v |-> [offensive |-> IntNum(93), strikeout_rate |-> Rat(119, 5)]],
    [k |-> "KC", v |-> [offensive |-> IntNum(95), strikeout_rate |-> Rat(221, 10)]],
    [k |-> "MIN", v |-> [offensive |-> IntNum(102), strikeout_rate |-> Rat(229, 10)]],
    [k |-> "CWS", v |-> [offensive |-> IntNum(97), strikeout_rate |-> Rat(47, 2)]] >>

\* get_team_pitching_ratings: the placeholder data
placeholder_pitching_ratings == <<
    [k |-> "NYY", v |-> [pitching |-> IntNum(105), strikeout_rate |-> Rat(49, 2)]],
    [k |-> "BOS", v |-> [pitching |-> IntNum(98), strikeout_rate |-> IntNum(22)]],
    [k |-> "TB", v |-> [pitching |-> IntNum(108), strikeout_rate |-> Rat(126, 5)]],
    [k |-> "BAL", v |-> [pitching |-> IntNum(102), strikeout_rate |-> Rat(119, 5)]],
    [k |-> "TOR", v |-> [pitching |-> IntNum(100), strikeout_rate |-> Rat(43, 2)]],
    [k |-> "LAD", v |-> [pitching |-> IntNum(112), strikeout_rate |-> Rat(134, 5)]],
    [k |-> "SF", v |-> [pitching |-> IntNum(106), strikeout_rate |-> Rat(241, 10)]],
    [k |-> "SD", v |-> [pitching |-> IntNum(107), strikeout_rate |-> Rat(257, 10)]],
    [k |-> "ARI", v |-> [pitching |-> IntNum(101), strikeout_rate |-> Rat(223, 10)]],
    [k |-> "COL", v |-> [pitching |-> IntNum(90), strikeout_rate |-> Rat(41, 2)]],
    [k |-> "ATL", v |-> [pitching |-> IntNum(110), strikeout_rate |-> Rat(261, 10)]],
    [k |-> "NYM", v |-> [pitching |-> IntNum(107), strikeout_rate |-> Rat(249, 10)]],
    [k |-> "PHI", v |-> [pitching |-> IntNum(103), strikeout_rate |-> Rat(237, 10)]],
    [k |-> "WSH", v |-> [pitching |-> IntNum(94), strikeout_rate |-> Rat(104, 5)]],
    [k |-> "MIA", v |-> [pitching |-> IntNum(105), strikeout_rate |-> Rat(253, 10)]],
    [k |-> "CHC", v |-> [pitching |-> IntNum(99), strikeout_rate |-> Rat(231, 10)]],
    [k |-> "CIN", v |-> [pitching |-> IntNum(97), strikeout_rate |-> Rat(45, 2)]],
    [k |-> "MIL", v |-> [pitching |-> IntNum(104), strikeout_rate |-> Rat(124, 5)]],
    [k |-> "PIT", v |-> [pitching |-> IntNum(96), strikeout_rate |-> Rat(106, 5)]],
    [k |-> "STL", v |-> [pitching |-> IntNum(102), strikeout_rate |-> Rat(114, 5)]],
    [k |-> "HOU", v |-> [pitching |-> IntNum(109), strikeout_rate |-> Rat(51, 2)]],
    [k |-> "TEX", v |-> [pitching |-> IntNum(104), strikeout_rate |-> Rat(231, 10)]],
    [k |-> "LAA", v |-> [pitching |-> IntNum(95), strikeout_rate |-> Rat(217, 10)]],
    [k |-> "OAK", v |-> [pitching |-> IntNum(97), strikeout_rate |-> Rat(229, 10)]],
    [k |-> "SEA", v |-> [pitching |-> IntNum(106), strikeout_rate |-> Rat(128, 5)]],
    [k |-> "CLE", v |-> [pitching |-> IntNum(105), strikeout_rate |-> Rat(121, 5)]],
    [k |-> "DET", v |-> [pitching |-> IntNum(102), strikeout_rate |-> Rat(119, 5)]],
    [k |-> "KC", v |-> [pitching |-> IntNum(98), strikeout_rate |-> Rat(221, 10)]],
    [k |-> "MIN", v |-> [pitching |-> IntNum(103), strikeout_rate |-> Rat(49, 2)]],
    [k |-> "CWS", v |-> [pitching |-> IntNum(99), strikeout_rate |-> Rat(47, 2)]] >>

\* get_ballpark_factors: the values used when there is no client
fallback_ballpark_factors == <<
    [k |-> "Yankee Stadium", v |-> Rat(28, 25)],
    [k |-> "Fenway Park", v |-> Rat(5, 4)],
    [k |-> "Tropicana Field", v |-> Rat(47, 50)],
    [k |-> "Camden Yards", v |-> Rat(21, 20)],
    [k |-> "Rogers Centre", v |-> Rat(103, 100)],
    [k |-> "Dodger Stadium", v |-> Rat(49, 50)],
    [k |-> "Oracle Park", v |-> Rat(9, 10)],
    [k |-> "Petco Park", v |-> Rat(93, 100)],
    [k |-> "Chase Field", v |-> Rat(27, 25)],
    [k |-> "Coors Field", v |-> Rat(69, 50)],
    [k |-> "Truist Park", v |-> Rat(51, 50)],
    [k |-> "Citi Field", v |-> Rat(24, 25)],
    [k |-> "Citizens Bank Park", v |-> Rat(23, 20)],
    [k |-> "Nationals Park", v |-> IntNum(1)],
    [k |-> "LoanDepot Park", v |-> Rat(23, 25)],
    [k |-> "Wrigley Field", v |-> Rat(26, 25)],
    [k |-> "Great American Ball Park", v |-> Rat(111, 100)],
    [k |-> "American Family Field", v |-> Rat(21, 20)],
    [k |-> "PNC Park", v |-> Rat(91, 100)],
    [k |-> "Busch Stadium", v |-> Rat(49, 50)],
    [k |-> "Minute Maid Park", v |-> Rat(27, 25)],
    [k |-> "Globe Life Field", v |-> Rat(97, 100)],
    [k |-> "Angel Stadium", v |-> Rat(97, 100)],
    [k |-> "Oakland Coliseum", v |-> Rat(93, 100)],
    [k |-> "T-Mobile Park", v |-> Rat(47, 50)],
    [k |-> "Progressive Field", v |-> Rat(49, 50)],
    [k |-> "Comerica Park", v |-> Rat(19, 20)],
    [k |-> "Kauffman Stadium", v |-> Rat(49, 50)],
    [k |-> "Target Field", v |-> IntNum(1)] >>

\* _get_ballpark_by_team: team abbreviation -> home ballpark
team_ballparks == <<
    [k |-> "NYY", v |-> "Yankee Stadium"],
    [k |-> "BOS", v |-> "Fenway Park"],
    [k |-> "TB", v |-> "Tropicana Field"],
    [k |-> "BAL", v |-> "Camden Yards"],
    [k |-> "TOR", v |-> "Rogers Centre"],
    [k |-> "LAD", v |-> "Dodger Stadium"],
    [k |-> "SF", v |-> "Oracle Park"],
    [k |-> "SD", v |-> "Petco Park"],
    [k |-> "ARI", v |-> "Chase Field"],
    [k |-> "COL", v |-> "Coors Field"],
    [k |-> "ATL", v |-> "Truist Park"],
    [k |-> "NYM", v |-> "Citi Field"],
    [k |-> "PHI", v |-> "Citizens Bank Park"],
    [k |-> "WSH", v |-> "Nationals Park"],
    [k |-> "MIA", v |-> "LoanDepot Park"],
    [k |-> "CHC", v |-> "Wrigley Field"],
    [k |-> "CIN", v |-> "Great American Ball Park"],
    [k |-> "MIL", v |-> "American Family Field"],
    [k |-> "PIT", v |-> "PNC Park"],
    [k |-> "STL", v |-> "Busch Stadium"],
    [k |-> "HOU", v |-> "Minute Maid Park"],
    [k |-> "TEX", v |-> "Globe Life Field"],
    [k |-> "LAA", v |-> "Angel Stadium"],
    [k |-> "OAK", v |-> "Oakland Coliseum"],
    [k |-> "SEA", v |-> "T-Mobile Park"],
    [k |-> "CLE", v |-> "Progressive Field"],
    [k |-> "DET", v |-> "Comerica Park"],
    [k |-> "KC", v |-> "Kauffman Stadium"],
    [k |-> "MIN", v |-> "Target Field"],
    [k |-> "CWS", v |-> "Guaranteed Rate Field"] >>

\* MLBStatsClient._get_team_abbreviation: full team name -> abbreviation
team_mapping == <<
    [k |-> "New York Yankees", v |-> "NYY"],
    [k |-> "Boston Red Sox", v |-> "BOS"],
    [k |-> "Tampa Bay Rays", v |-> "TB"],
    [k |-> "Baltimore Orioles", v |-> "BAL"],
    [k |-> "Toronto Blue Jays", v |-> "TOR"],
    [k |-> "Los Angeles Dodgers", v |-> "LAD"],
    [k |-> "San Francisco Giants", v |-> "SF"],
    [k |-> "San Diego Padres", v |-> "SD"],
    [k |-> "Arizona Diamondbacks", v |-> "ARI"],
    [k |-> "Colorado Rockies", v |-> "COL"],
    [k |-> "Atlanta Braves", v |-> "ATL"],
    [k |-> "New York Mets", v |-> "NYM"],
    [k |-> "Philadelphia Phillies", v |-> "PHI"],
    [k |-> "Washington Nationals", v |-> "WSH"],
    [k |-> "Miami Marlins", v |-> "MIA"],
    [k |-> "Chicago Cubs", v |-> "CHC"],
    [k |-> "Cincinnati Reds", v |-> "CIN"],
    [k |-> "Milwaukee Brewers", v |-> "MIL"],
    [k |-> "Pittsburgh Pirates", v |-> "PIT"],
    [k |-> "St. Louis Cardinals", v |-> "STL"],
    [k |-> "Houston Astros", v |-> "HOU"],
    [k |-> "Texas Rangers", v |-> "TEX"],
    [k |-> "Los Angeles Angels", v |-> "LAA"],
    [k |-> "Oakland Athletics", v |-> "OAK"],
    [k |-> "Seattle Mariners", v |-> "SEA"],
    [k |-> "Cleveland Guardians", v |-> "CLE"],
    [k |-> "Detroit Tigers", v |-> "DET"],
    [k |-> "Kansas City Royals", v |-> "KC"],
    [k |-> "Minnesota Twins", v |-> "MIN"],
    [k |-> "Chicago White Sox", v |-> "CWS"] >>

\* ScheduleAnalyzer(): the fields after __init__
ScheduleAnalyzerConstructed(has_mlb_api) ==
    /\ schedule_analyzer = << [mlb_client |-> has_mlb_api,
                               _team_offensive_ratings |-> <<>>,
                               _team_pitching_ratings |-> <<>>,
                               _ballpark_factors |-> <<>>] >>
    /\ schedule_call = [op |-> "none"]
    /\ schedule_result = <<>>

\* the client's tables are literals, so its calls do not raise
get_team_offensive_ratings(self) ==
    IF self._team_offensive_ratings # <<>> THEN self._team_offensive_ratings[1]
    ELSE IF self.mlb_client THEN mlb_team_ratings
    ELSE fallback_offensive_ratings

get_team_pitching_ratings(self) ==
    IF self._team_pitching_ratings # <<>> THEN self._team_pitching_ratings[1]
    ELSE placeholder_pitching_ratings

get_ballpark_factors(self) ==
    IF self._ballpark_factors # <<>> THEN self._ballpark_factors[1]
    ELSE IF self.mlb_client THEN mlb_ballpark_factors
    ELSE fallback_ballpark_factors

\* self after the three getters have run
WithTables(self) ==
    [self EXCEPT !._team_offensive_ratings = << get_team_offensive_ratings(self) >>,
                 !._team_pitching_ratings = << get_team_pitching_ratings(self) >>,
                 !._ballpark_factors = << get_ballpark_factors(self) >>]

\* ratings.get(abbr, {}).get(field, default)
RatingOr(ratings, abbr, field, default) ==
    IF DictHas(ratings, abbr) THEN DictGet(ratings, abbr)[field] ELSE default

\* the chain over matchup_rating with >= in place of >
QualityTierInclusive(matchup_rating, is_offense) ==
    IF Ge(matchup_rating, IntNum(120))
    THEN [quality |-> "Excellent",
          recommendation |-> IF is_offense THEN "Start all hitters"
                             ELSE "Stream pitchers against this team"]
    ELSE IF Ge(matchup_rating, IntNum(110))
    THEN [quality |-> "Good",
          recommendation |-> IF is_offense THEN "Start most hitters"
                             ELSE "Good streaming opportunity"]
    ELSE IF Ge(matchup_rating, IntNum(100))
    THEN [quality |-> "Favorable",
          recommendation |-> IF is_offense THEN "Start regular hitters"
                             ELSE "Start your regular pitchers"]
    ELSE IF Ge(matchup_rating, IntNum(90))
    THEN [quality |-> "Average", recommendation |-> "Start your studs"]
    ELSE [quality |-> "Tough",
          recommendation |-> IF is_offense
                             THEN "Consider benching borderline hitters"
                             ELSE "Consider benching borderline pitchers"]

\* the if/elif chain over matchup_rating of either branch
QualityTier(matchup_rating, is_offense) ==
    IF Gt(matchup_rating, IntNum(120))
    THEN [quality |-> "Excellent",
          recommendation |-> IF is_offense THEN "Start all hitters"
                             ELSE "Stream pitchers against this team"]
    ELSE IF Gt(matchup_rating, IntNum(110))
    THEN [quality |-> "Good",
          recommendation |-> IF is_offense THEN "Start most hitters"
                             ELSE "Good streaming opportunity"]
    ELSE IF Gt(matchup_rating, IntNum(100))
    THEN [quality |-> "Favorable",
          recommendation |-> IF is_offense THEN "Start regular hitters"
                             ELSE "Start your regular pitchers"]
    ELSE IF Gt(matchup_rating, IntNum(90))
    THEN [quality |-> "Average", recommendation |-> "Start your studs"]
    ELSE [quality |-> "Tough",
          recommendation |-> IF is_offense
                             THEN "Consider benching borderline hitters"
                             ELSE "Consider benching borderline pitchers"]

\* matchup_rating of the offense branch
OffenseRating(opponent_pitching, opponent_k_rate, park_factor) ==
    Mul(Mul(Mul(IntNum(100), Div(IntNum(1), Div(opponent_pitching, IntNum(100)))),
            park_factor),
        Div(IntNum(1), Div(opponent_k_rate, IntNum(22))))

\* matchup_rating of the pitching branch
PitchingRating(opponent_offense, opponent_k_rate, park_factor) ==
    Mul(Mul(Mul(IntNum(100), Div(IntNum(1), Div(opponent_offense, IntNum(100)))),
            Div(IntNum(1), park_factor)),
        Div(opponent_k_rate, IntNum(22)))

\* the dict the offense branch returns
OffenseAnalysis(matchup_rating, team_offense, opponent_pitching, opponent_k_rate, park_factor) ==
    [matchup_rating |-> matchup_rating,
     quality |-> QualityTier(matchup_rating, TRUE).quality,
     recommendation |-> QualityTier(matchup_rating, TRUE).recommendation,
     team_offense |-> team_offense,
     opponent_pitching |-> opponent_pitching,
     opponent_k_rate |-> opponent_k_rate,
     ballpark_factor |-> park_factor,
     is_offense |-> TRUE]

\* the dict the pitching branch returns
PitchingAnalysis(matchup_rating, team_pitching, opponent_offense, opponent_k_rate, park_factor) ==
    [matchup_rating |-> matchup_rating,
     quality |-> QualityTier(matchup_rating, FALSE).quality,
     recommendation |-> QualityTier(matchup_rating, FALSE).recommendation,
     team_pitching |-> team_pitching,
     opponent_offense |-> opponent_offense,
     opponent_k_rate |-> opponent_k_rate,
     ballpark_factor |-> park_factor,
     is_offense |-> FALSE]

\* analyze_matchup_quality with the tables the getters return
MatchupQuality(team_abbr, is_offense, opponent_abbr, ballpark, offensive_ratings, pitching_ratings, park_factors) ==
    IF is_offense
    THEN OffenseAnalysis(
             OffenseRating(
                 RatingOr(pitching_ratings, opponent_abbr, "pitching", IntNum(100)),
                 RatingOr(pitching_ratings, opponent_abbr, "strikeout_rate", IntNum(22)),
                 IF DictHas(park_factors, ballpark) THEN DictGet(park_factors, ballpark)
                 ELSE IntNum(1)),
             RatingOr(offensive_ratings, team_abbr, "offensive", IntNum(100)),
             RatingOr(pitching_ratings, opponent_abbr, "pitching", IntNum(100)),
             RatingOr(pitching_ratings, opponent_abbr, "strikeout_rate", IntNum(22)),
             IF DictHas(park_factors, ballpark) THEN DictGet(park_factors, ballpark)
             ELSE IntNum(1))
    ELSE PitchingAnalysis(
             PitchingRating(
                 RatingOr(offensive_ratings, opponent_abbr, "offensive", IntNum(100)),
                 RatingOr(offensive_ratings, opponent_abbr, "strikeout_rate", IntNum(22)),
                 IF DictHas(park_factors, ballpark) THEN DictGet(park_factors, ballpark)
                 ELSE IntNum(1)),
             RatingOr(pitching_ratings, team_abbr, "pitching", IntNum(100)),
             RatingOr(offensive_ratings, opponent_abbr, "offensive", IntNum(100)),
             RatingOr(offensive_ratings, opponent_abbr, "strikeout_rate", IntNum(22)),
             IF DictHas(park_factors, ballpark) THEN DictGet(park_factors, ballpark)
             ELSE IntNum(1))

analyze_matchup_quality(self, team_abbr, is_offense, opponent_abbr, ballpark) ==
    MatchupQuality(team_abbr, is_offense, opponent_abbr, ballpark,
                   get_team_offensive_ratings(self), get_team_pitching_ratings(self),
                   get_ballpark_factors(self))

\* a call on the schedule analyzer that leaves it as self and returns value
ScheduleReturns(call, self, value) ==
    /\ schedule_analyzer' = << self >>
    /\ schedule_call' = call
    /\ schedule_result' = value
    /\ UNCHANGED ca_vars
    /\ UNCHANGED matchup_vars

AnalyzeMatchupQuality(team_abbr, is_offense, opponent_abbr, ballpark) ==
    /\ schedule_analyzer # <<>>
    /\ ScheduleReturns([op |-> "analyze_matchup_quality", team_abbr |-> team_abbr,
                        is_offense |-> is_offense, opponent_abbr |-> opponent_abbr,
                        ballpark |-> ballpark],
                       WithTables(schedule_analyzer[1]),
                       analyze_matchup_quality(schedule_analyzer[1], team_abbr,
                                               is_offense, opponent_abbr, ballpark))

_get_ballpark_by_team(team_abbr) ==
    IF DictHas(team_ballparks, team_abbr) THEN DictGet(team_ballparks, team_abbr)
    ELSE "Unknown Ballpark"

_get_team_abbreviation(team_name) ==
    IF DictHas(team_mapping, team_name) THEN DictGet(team_mapping, team_name)
    ELSE "UNK"

\* daily_schedule['dates'][0]['games'] of mlb_client.get_schedule(date) as a
\* list of [home, away] team names; <<>> when the response has no dates.
\* feed[day + 1] is the list for today + day
DailyGames(feed, day) == IF day + 1 \in DOMAIN feed THEN feed[day + 1] ELSE <<>>

RECURSIVE TeamGames(_, _, _)
\* the loop over the games of one date in get_team_schedule
TeamGames(games, date, team_abbr) ==
    IF games = <<>> THEN <<>>
    ELSE (IF \/ _get_team_abbreviation(games[1].home) = team_abbr
             \/ _get_team_abbreviation(games[1].away) = team_abbr
          THEN << [date |-> date,
                   home_team |-> _get_team_abbreviation(games[1].home),
                   away_team |-> _get_team_abbreviation(games[1].away),
                   ballpark |-> _get_ballpark_by_team(
                                    _get_team_abbreviation(games[1].home)),
                   is_home |-> _get_team_abbreviation(games[1].home) = team_abbr] >>
          ELSE <<>>)
         \o TeamGames(Tail(games), date, team_abbr)

RECURSIVE ClientSchedule(_, _, _, _)
\* the loop "for day in range(days_ahead)" of get_team_schedule, from day on
ClientSchedule(team_abbr, day, days_ahead, feed) ==
    IF day >= days_ahead THEN <<>>
    ELSE TeamGames(DailyGames(feed, day), day, team_abbr)
         \o ClientSchedule(team_abbr, day + 1, days_ahead, feed)

RECURSIVE _get_placeholder_schedule(_, _, _, _)
\* the loop "for day in range(days_ahead)" from day on; draws[day + 1] holds
\* the values of random.random() < 0.2, random.choice(all_teams) and
\* random.random() < 0.55 of that iteration
_get_placeholder_schedule(team_abbr, day, days_ahead, draws) ==
    IF day >= days_ahead THEN <<>>
    ELSE (IF draws[day + 1].off_day THEN <<>>
          ELSE << [date |-> day,
                   home_team |-> IF draws[day + 1].is_home THEN team_abbr
                                 ELSE draws[day + 1].opponent,
                   away_team |-> IF draws[day + 1].is_home
                                 THEN draws[day + 1].opponent ELSE team_abbr,
                   ballpark |-> _get_ballpark_by_team(
                                    IF draws[day + 1].is_home THEN team_abbr
                                    ELSE draws[day + 1].opponent),
                   is_home |-> draws[day + 1].is_home] >>)
         \o _get_placeholder_schedule(team_abbr, day + 1, days_ahead, draws)

\* get_team_schedule for a team of the ratings table; feed is what the
\* client's get_schedule returns, draws what the random module returns
get_team_schedule(self, team_abbr, days_ahead, feed, draws) ==
    IF ~self.mlb_client THEN _get_placeholder_schedule(team_abbr, 0, days_ahead, draws)
    ELSE ClientSchedule(team_abbr, 0, days_ahead, feed)

\* the games "if game['date'] == date_str" lets through
GamesOfDate(team, schedule, date_str) ==
    [i \in DOMAIN SelectSeq(schedule, LAMBDA game : game.date = date_str) |->
        [team |-> team,
         game |-> SelectSeq(schedule, LAMBDA game : game.date = date_str)[i]]]

RECURSIVE MatchedGames(_, _, _, _, _)
\* the loop "for team in teams" of one day: the games it analyzes
MatchedGames(self, team_abbrs, day, feed, draws) ==
    IF team_abbrs = <<>> THEN <<>>
    ELSE GamesOfDate(team_abbrs[1],
                     get_team_schedule(self, team_abbrs[1], 1, feed,
                                       << draws[day][team_abbrs[1]] >>),
                     day)
         \o MatchedGames(self, Tail(team_abbrs), day, feed, draws)

\* the opportunity dict of a game with its pitching analysis
OpportunityOf(team, opponent, game, pitching_analysis) ==
    [team |-> team, opponent |-> opponent, ballpark |-> game.ballpark,
     is_home |-> game.is_home, rating |-> pitching_analysis.matchup_rating,
     quality |-> pitching_analysis.quality,
     recommendation |-> pitching_analysis.recommendation]

OpponentIn(game) == IF game.is_home THEN game.away_team ELSE game.home_team

RECURSIVE DailyOpportunities(_, _)
\* daily_opportunities before it is sorted
DailyOpportunities(self, matched) ==
    IF matched = <<>> THEN <<>>
    ELSE (IF Gt(analyze_matchup_quality(self, matched[1].team, FALSE,
                                        OpponentIn(matched[1].game),
                                        matched[1].game.ballpark).matchup_rating,
                IntNum(105))
          THEN << OpportunityOf(matched[1].team, OpponentIn(matched[1].game),
                                matched[1].game,
                                analyze_matchup_quality(self, matched[1].team, FALSE,
                                                        OpponentIn(matched[1].game),
                                                        matched[1].game.ballpark)) >>
          ELSE <<>>)
         \o DailyOpportunities(self, Tail(matched))

RECURSIVE CmpPositive(_, _, _, _)
\* the sign of a/c - b/d for positive a, b, c, d, by their continued
\* fractions (no product is formed, so large denominators do not overflow)
CmpPositive(a, c, b, d) ==
    IF a \div c # b \div d THEN (IF a \div c < b \div d THEN -1 ELSE 1)
    ELSE IF a % c = 0 /\ b % d = 0 THEN 0
    ELSE IF a % c = 0 THEN -1
    ELSE IF b % d = 0 THEN 1
    ELSE -CmpPositive(c, a % c, d, b % d)

\* x >= y for two matchup ratings, which are positive rationals
RatesAtLeast(x, y) == CmpPositive(x.a, x.c, y.a, y.c) >= 0

RECURSIVE InsertByRating(_, _)
\* x placed behind every element of s that rates at least as high
InsertByRating(x, s) ==
    IF s = <<>> THEN <<x>>
    ELSE IF RatesAtLeast(s[1].rating, x.rating)
    THEN <<s[1]>> \o InsertByRating(x, Tail(s))
    ELSE <<x>> \o s

RECURSIVE SortByRating(_)
\* list.sort(key=rating, reverse=True): stable
SortByRating(s) ==
    IF s = <<>> THEN <<>>
    ELSE InsertByRating(s[Len(s)], SortByRating(SubSeq(s, 1, Len(s) - 1)))

\* opportunities_by_date: the entry of index day + 1 is that of today + day
find_streaming_opportunities(self, days_ahead, feed, draws) ==
    [d \in 1..days_ahead |->
        [k |-> d - 1,
         v |-> SortByRating(
                   DailyOpportunities(
                       self,
                       MatchedGames(self, DictKeys(get_team_offensive_ratings(self)),
                                    d - 1, feed, draws)))]]

\* self after find_streaming_opportunities: the offensive ratings are read
\* first, the other tables when a game is analyzed
AfterStreaming(self, days_ahead, feed, draws) ==
    IF \E d \in 1..days_ahead :
           MatchedGames(self, DictKeys(get_team_offensive_ratings(self)),
                        d - 1, feed, draws) # <<>>
    THEN WithTables(self)
    ELSE [self EXCEPT !._team_offensive_ratings = << get_team_offensive_ratings(self) >>]

FindStreamingOpportunities(days_ahead, feed, draws) ==
    /\ schedule_analyzer # <<>>
    /\ ScheduleReturns([op |-> "find_streaming_opportunities",
                        days_ahead |-> days_ahead, feed |-> feed, draws |-> draws],
                       AfterStreaming(schedule_analyzer[1], days_ahead, feed, draws),
                       find_streaming_opportunities(schedule_analyzer[1], days_ahead,
                                                    feed, draws))

(***************************************************************************)
(* The schedule analyzer with and without the MLB client                   *)
(***************************************************************************)
MaxDays == 2

\* the team analyzed: one of the tables, one of no table
ScheduleTeams == { "NYY", "JPN" }

\* opponents: one of no table (every rating at its default) and five of
\* the tables
QualityOpponents == { "JPN", "LAD", "COL", "OAK", "MIA", "KC" }

\* ballparks: one of no table, the most hitter-friendly, a pitcher-friendly
\* and a neutral one
QualityBallparks == { "Unknown Ballpark", "Coors Field", "Oracle Park", "Nationals Park" }

\* what the client's schedule endpoint returns for today and the next days
ScheduleFeeds ==
    { <<>>,
      << << [home |-> "New York Yankees", away |-> "Oakland Athletics"] >>,
         << [home |-> "Pittsburgh Pirates", away |-> "Miami Marlins"] >> >>,
      << << [home |-> "Colorado Rockies", away |-> "Los Angeles Dodgers"],
            [home |-> "Tokyo Giants", away |-> "Miami Marlins"],
            [home |-> "Pittsburgh Pirates", away |-> "Miami Marlins"],
            [home |-> "Pittsburgh Pirates", away |-> "Miami Marlins"] >>,
         <<>>,
         << [home |-> "Seattle Mariners", away |-> "Oakland Athletics"] >> >> }

ScheduledTeams == Range(DictKeys(fallback_offensive_ratings))

\* the random values of the placeholder schedules, by day of the outer loop
\* and team: every team is off; every team is at home against OAK (OAK
\* against MIA); every team is off in the first iteration and on the road
\* at PIT (PIT at MIA) in the later ones
ScheduleDraws ==
    { [day \in 0..MaxDays |-> [team \in ScheduledTeams |->
          [off_day |-> TRUE, opponent |-> "OAK", is_home |-> TRUE]]],
      [day \in 0..MaxDays |-> [team \in ScheduledTeams |->
          [off_day |-> FALSE,
           opponent |-> IF team = "OAK" THEN "MIA" ELSE "OAK",
           is_home |-> TRUE]]],
      [day \in 0..MaxDays |-> [team \in ScheduledTeams |->
          [off_day |-> day = 0,
           opponent |-> IF team = "PIT" THEN "MIA" ELSE "PIT",
           is_home |-> FALSE]]] }

\* the environment of a call: the client's feed when there is a client, the
\* random values when there is none
ScheduleEnvironments(self) ==
    IF self.mlb_client
    THEN { [feed |-> feed, draws |-> <<>>] : feed \in ScheduleFeeds }
    ELSE { [feed |-> <<>>, draws |-> draws] : draws \in ScheduleDraws }

ScheduleInit ==
    /\ ConstructedWith(<<>>)
    /\ MatchupConstructedWith(NoArguments)
    /\ \E has_mlb_api \in BOOLEAN : ScheduleAnalyzerConstructed(has_mlb_api)

ScheduleNext ==
    \/ \E team_abbr \in ScheduleTeams, is_offense \in BOOLEAN,
          opponent_abbr \in QualityOpponents, ballpark \in QualityBallparks :
           AnalyzeMatchupQuality(team_abbr, is_offense, opponent_abbr, ballpark)
    \/ \E days_ahead \in 0..MaxDays :
           \E env \in ScheduleEnvironments(schedule_analyzer[1]) :
               FindStreamingOpportunities(days_ahead, env.feed, env.draws)

ScheduleSpec == ScheduleInit /\ [][ScheduleNext]_vars

(***************************************************************************)
(* Properties of the matchup quality                                       *)
(***************************************************************************)
QualityAnalyzed == schedule_call.op = "analyze_matchup_quality"

\* the recommendation that goes with a tier
CannedRecommendation(quality, is_offense) ==
    CASE quality = "Excellent" ->
             (IF is_offense THEN "Start all hitters"
              ELSE "Stream pitchers against this team")
      [] quality = "Good" ->
             (IF is_offense THEN "Start most hitters" ELSE "Good streaming opportunity")
      [] quality = "Favorable" ->
             (IF is_offense THEN "Start regular hitters"
              ELSE "Start your regular pitchers")
      [] quality = "Average" -> "Start your studs"
      [] OTHER ->
             (IF is_offense THEN "Consider benching borderline hitters"
              ELSE "Consider benching borderline pitchers")

\* r carries the tier its rating falls into, and the tier's recommendation
TieredByRating(r) ==
    /\ r.quality \in {"Excellent", "Good", "Favorable", "Average", "Tough"}
    /\ r.quality = "Excellent" <=> Gt(r.matchup_rating, IntNum(120))
    /\ r.quality = "Good" <=> /\ Gt(r.matchup_rating, IntNum(110))
                              /\ Le(r.matchup_rating, IntNum(120))
    /\ r.quality = "Favorable" <=> /\ Gt(r.matchup_rating, IntNum(100))
                                   /\ Le(r.matchup_rating, IntNum(110))
    /\ r.quality = "Average" <=> /\ Gt(r.matchup_rating, IntNum(90))
                                 /\ Le(r.matchup_rating, IntNum(100))
    /\ r.quality = "Tough" <=> Le(r.matchup_rating, IntNum(90))
    /\ r.recommendation = CannedRecommendation(r.quality, r.is_offense)

\* the opponent's rating, its strikeout rate and the park factor that
\* entered r are 100, 22 and 1
Neutral(r) ==
    /\ NumEq(r.ballpark_factor, IntNum(1))
    /\ NumEq(r.opponent_k_rate, IntNum(22))
    /\ NumEq(IF r.is_offense THEN r.opponent_pitching ELSE r.opponent_offense,
             IntNum(100))

\* C23: analyze_matchup_quality assigns exactly one quality tier from the
\* rating by fixed thresholds: Excellent if rating > 120, else Good if > 110,
\* else Favorable if > 100, else Average if > 90, else Tough, with the
\* tier's fixed recommendation string; the same thresholds apply for offense
\* and pitching, and a fully neutral matchup (all ratings 100, park factor
\* 1.0, strikeout rate 22) rates exactly 100 and is tiered Average.
C23_QualityTiers ==
    QualityAnalyzed =>
        /\ schedule_result.is_offense = schedule_call.is_offense
        /\ TieredByRating(schedule_result)
        /\ Neutral(schedule_result) =>
               /\ NumEq(schedule_result.matchup_rating, IntNum(100))
               /\ schedule_result.quality = "Average"

\* a pitching matchup against a team of no table in a park of no table
C23_Witness ==
    /\ QualityAnalyzed
    /\ ~schedule_call.is_offense
    /\ schedule_call.opponent_abbr = "JPN"
    /\ schedule_call.ballpark = "Unknown Ballpark"
    /\ Neutral(schedule_result)
    /\ schedule_result.quality = "Average"
    /\ schedule_result.recommendation = "Start your studs"

(***************************************************************************)
(* optimize_pitcher_starts on a roster of two starters with the same       *)
(* projection                                                              *)
(***************************************************************************)
LevelRoster == << Projected(2, <<SP>>, 10), Projected(3, <<SP>>, 10) >>

RankingInit ==
    /\ ConstructedWith(<<>>)
    /\ MatchupConstructedWith([NoArguments EXCEPT !.team = << MkTeam(1, LevelRoster) >>])
    /\ NoScheduleAnalyzer

RankingNext ==
    \E max_starts \in 0..MaxStartsBound, use_mlb_api \in BOOLEAN,
       probable_starters \in ProbableFeeds :
        OptimizePitcherStarts(max_starts, use_mlb_api, probable_starters)

RankingSpec == RankingInit /\ [][RankingNext]_vars

(***************************************************************************)
(* Properties of the ranking                                               *)
(***************************************************************************)
StartsRanked ==
    /\ matchup_call.op = "optimize_pitcher_starts"
    /\ IsRanked(matchup_result)

\* recommended_pitchers followed by benched_pitchers
RankedNames == matchup_result.recommended_pitchers \o matchup_result.benched_pitchers

\* the position of the pitcher called name among the roster's starters
RosterIndex(name) == CHOOSE i \in DOMAIN ScoredPitchers : ScoredPitchers[i].name = name

\* the adjusted score of the start the result schedules for name
ScheduledScore(name) ==
    LET start == DictGet(matchup_result.pitcher_schedule, name)
    IN  calculate_adjusted_score(ScoredPitchers[RosterIndex(name)].base_score,
                                 start.opponent, start.ballpark, start.home_game,
                                 team_ratings(matchup_call.use_mlb_api),
                                 ballpark_factors(matchup_call.use_mlb_api))

\* C24: in optimize_pitcher_starts, the ranked order (recommended_pitchers
\* followed by benched_pitchers) is non-increasing in adjusted_score, and
\* any two pitchers with equal adjusted_score appear in their roster input
\* order.
C24_RankedAndStable ==
    StartsRanked =>
        \A m, k \in DOMAIN RankedNames :
            m < k =>
                /\ ~Gt(ScheduledScore(RankedNames[k]), ScheduledScore(RankedNames[m]))
                /\ NumEq(ScheduledScore(RankedNames[k]), ScheduledScore(RankedNames[m]))
                       => RosterIndex(RankedNames[m]) < RosterIndex(RankedNames[k])

\* both starters face OAK on the road and score the same; the second of the
\* roster is recommended and the first is benched
C24_LaterPitcherFirst ==
    /\ StartsRanked
    /\ matchup_call.arg = 1
    /\ \A i \in DOMAIN matchup_result.pitcher_schedule :
           /\ matchup_result.pitcher_schedule[i].v.opponent = "OAK"
           /\ ~matchup_result.pitcher_schedule[i].v.home_game
    /\ NumEq(ScheduledScore(PlayerName(2)), ScheduledScore(PlayerName(3)))
    /\ matchup_result.recommended_pitchers = << PlayerName(3) >>
    /\ matchup_result.benched_pitchers = << PlayerName(2) >>

(***************************************************************************)
(* The team values of an analysis against the league baseline              *)
(***************************************************************************)
\* Team A sums 40 home runs and Team B 20; Team A's two starters have ERA 2
\* and 4 and 5 and 7 strikeouts
HomeRunLeague ==
    << MkTeam(1, << Batter(1, 25), Batter(2, 15), Pitcher(3, 2, 5),
                    Pitcher(4, 4, 7) >>),
       MkTeam(2, << Batter(5, 20), Pitcher(6, 5, 3) >>) >>

\* the second team has no batter, and a two-way player among its pitchers
StaffLeague ==
    << MkTeam(1, << Batter(1, 3), Pitcher(2, 1, 4), Pitcher(3, 2, 6) >>),
       MkTeam(2, << TwoWay(4, 9, 6), Pitcher(5, 3, 1), NoStats(6) >>) >>

\* the graded leagues of at most six teams
MidLeagues == { ts \in GradedLeagues : Len(ts) <= 6 }

\* the second team has a batter, a two-way player and a starter
TwoWayLeague ==
    << MkTeam(1, << Batter(1, 3), Pitcher(2, 1, 4) >>),
       MkTeam(2, << Batter(3, 5), TwoWay(4, 9, 6), Pitcher(5, 3, 1) >>) >>

ExampleLeagues == {HomeRunLeague, StaffLeague, TwoWayLeague}

BaselineInit ==
    /\ \E ts \in MidLeagues \cup SmallLeagues \cup ExampleLeagues :
           ConstructedWith(ts)
    /\ MatchupConstructedWith(NoArguments)
    /\ NoScheduleAnalyzer

BaselineNext ==
    \E team_id \in 1..(MaxLeague + 1) :
        /\ team_id <= Len(teams) + 1
        /\ AnalyzeTeamCategories(team_id)

BaselineSpec == BaselineInit /\ [][BaselineNext]_vars

\* the registered column of the category of entry x
ColumnOf(x) == DictGet(DictGet(categories, x.type), x.cat)

\* what the team with table team_df contributed to the list of values the
\* league baseline of the category of x was computed from
Contributed(x, team_df) ==
    TeamEntry(x.type, x.cat, ColumnOf(x), team_df.columns,
              SubRoster(x.type, team_df))

RECURSIVE ReportedValues(_, _)
\* the values the analyses of the teams ts report in the category of x, one
\* per team that has an entry in it
ReportedValues(ts, x) ==
    IF ts = <<>> THEN <<>>
    ELSE (IF /\ ~IsError(analyze_team_categories(ts[1].team_id))
             /\ DictHas(analyze_team_categories(ts[1].team_id).categories[x.type],
                        x.cat)
          THEN << DictGet(analyze_team_categories(ts[1].team_id).categories[x.type],
                          x.cat).value >>
          ELSE <<>>)
         \o ReportedValues(Tail(ts), x)

\* the entry the example of the two-team league with 40 and 20 home runs
\* gives Team A
HomeRunEntry ==
    [value |-> IntNum(40), league_mean |-> IntNum(30), league_median |-> IntNum(30),
     z_score |-> IntNum(1), percentile |-> Rat(200, 3), strength |-> "Strong"]

\* C25: every value reported by analyze_team_categories is the aggregate the
\* team contributed to the league baseline of the category, and the reported
\* league_mean is the mean of the values reported for all the teams that have
\* the category; in the two-team league with 40 and 20 home runs the league
\* standard deviation is 10 and Team A gets value 40, mean 30, z-score 1,
\* percentile 66.7 and tier Strong.
C25_ReportedAggregate ==
    Analyzed =>
        /\ \A x \in Entries(result) :
               /\ Contributed(x, DictGet(team_dfs, result.team_id)) = << x.e.value >>
               /\ x.e.league_mean = NpMean(ReportedValues(teams, x))
        /\ (teams = HomeRunLeague /\ result.team_id = 1) =>
               /\ DictGet(result.categories.batting, "HR") = HomeRunEntry
               /\ DictGet(DictGet(league_stats, "batting"), "HR").std = IntNum(10)

\* Team A of the example league was analyzed: its ERA is the mean 3 of its
\* two starters and its strikeouts their sum 12
C25_Witness ==
    /\ Analyzed
    /\ teams = HomeRunLeague
    /\ result.team_id = 1
    /\ DictGet(result.categories.batting, "HR").strength = "Strong"
    /\ DictGet(result.categories.pitching, "ERA").value = IntNum(3)
    /\ DictGet(result.categories.pitching, "K").value = IntNum(12)

(***************************************************************************)
(* Pitchers and batters, from the Player records                           *)
(***************************************************************************)
\* the eligible-slot string of a player
SlotString(player) == Join(<<",", " ">>, player.eligibleSlots)

\* the class of a player: pitching iff the slot string contains SP or RP
ClassOf(player) ==
    IF Contains(SP, SlotString(player)) \/ Contains(RP, SlotString(player))
    THEN "pitching" ELSE "batting"

ClassPlayers(roster, type) == SelectSeq(roster, LAMBDA p : ClassOf(p) = type)

RECURSIVE PlayerNames(_)
PlayerNames(players) ==
    IF players = <<>> THEN <<>>
    ELSE <<players[1].name>> \o PlayerNames(Tail(players))

\* the number a player has under the column col: its id under player_id,
\* else the scalar of its nested statistics flattened to that column
PlayerScalars(player, col) ==
    LET scopes == SelectSeq(player.stats, LAMBDA s : s.v.kind = "dict")
        Held(s) == SelectSeq(s.v.items, LAMBDA item : item.v.kind = "scalar"
                                            /\ StatKey(s.k, item.k) = col)
    IN  IF col = COL_player_id THEN << IntNum(player.playerId) >>
        ELSE IF scopes = <<>> \/ Held(scopes[1]) = <<>> THEN <<>>
        ELSE << Held(scopes[1])[1].v.val >>

RECURSIVE ScalarsOf(_, _)
\* the scalars the players hold under the column col, in roster order
ScalarsOf(players, col) ==
    IF players = <<>> THEN <<>>
    ELSE PlayerScalars(players[1], col) \o ScalarsOf(Tail(players), col)

\* the aggregate of a category over the scalars of one class
ClassAggregate(type, cat, scalars) ==
    IF type = "pitching" /\ cat \in RateStats
    THEN (IF scalars = <<>> THEN NaN ELSE NpMean(scalars))
    ELSE SumNum(scalars)

\* the value of the team with this roster in the category cat of type,
\* registered for the column col, from the players of that class alone
OwnClassValue(roster, type, cat, col) ==
    ClassAggregate(type, cat, ScalarsOf(ClassPlayers(roster, type), col))

\* some player of the roster has a scalar under the column col
Tracked(roster, col) == ScalarsOf(roster, col) # <<>>

RECURSIVE OwnClassValues(_, _, _, _)
\* the own-class values of the teams ts that track the column and have a
\* player of the class, in team order
OwnClassValues(ts, type, cat, col) ==
    IF ts = <<>> THEN <<>>
    ELSE (IF Tracked(ts[1].roster, col) /\ ClassPlayers(ts[1].roster, type) # <<>>
          THEN << OwnClassValue(ts[1].roster, type, cat, col) >>
          ELSE <<>>)
         \o OwnClassValues(Tail(ts), type, cat, col)

\* the roster of the team analyzed last
AnalyzedRoster == SelectSeq(teams, LAMBDA t : t.team_id = result.team_id)[1].roster

\* the categories of the baseline, each with its type and name
BaselineCategories ==
    UNION { { [type |-> type, cat |-> e.k, e |-> e.v] :
                  e \in Range(DictGet(league_stats, type)) } :
                type \in {"batting", "pitching"} }

\* the table of the team analyzed last
AnalyzedTable == DictGet(team_dfs, result.team_id)

\* C26: in the team analysis and in the baseline every rostered player is
\* either a pitcher or a batter and never both: a pitcher iff its
\* eligible-slot string contains SP or RP, a batter otherwise, so a player
\* eligible at a pitching and at a batting slot is a pitcher only; every
\* reported value and every baseline mean aggregates the statistics of the
\* players of the category's own class alone.
C26_OneClassEach ==
    Analyzed =>
        /\ Names(Pitchers(AnalyzedTable).rows)
               = PlayerNames(ClassPlayers(AnalyzedRoster, "pitching"))
        /\ Names(Batters(AnalyzedTable).rows)
               = PlayerNames(ClassPlayers(AnalyzedRoster, "batting"))
        /\ Len(Pitchers(AnalyzedTable).rows) + Len(Batters(AnalyzedTable).rows)
               = Len(AnalyzedRoster)
        /\ \A x \in Entries(result) :
               x.e.value = OwnClassValue(AnalyzedRoster, x.type, x.cat, ColumnOf(x))
        /\ \A b \in BaselineCategories :
               b.e.mean = NpMean(OwnClassValues(teams, b.type, b.cat, ColumnOf(b)))

\* the team with a batter of 5 home runs, a two-way player of 9 home runs
\* and ERA 6 and a starter of ERA 3 was analyzed: 5 home runs, ERA 9/2
C26_Witness ==
    /\ Analyzed
    /\ teams = TwoWayLeague
    /\ result.team_id = 2
    /\ DictGet(result.categories.batting, "HR").value = IntNum(5)
    /\ DictGet(result.categories.pitching, "ERA").value = Rat(9, 2)
    /\ DictGet(DictGet(league_stats, "batting"), "HR").mean = IntNum(4)

(***************************************************************************)
(* The analyses only read the analyzer                                     *)
(***************************************************************************)
ReadOnlyCalls ==
    {"analyze_team_categories", "recommend_category_improvements",
     "identify_trade_targets"}

StreamingFound ==
    /\ schedule_call.op = "find_streaming_opportunities"
    /\ schedule_analyzer[1].mlb_client

\* the games of team on today + day according to the feed
FeedGames(team, day) == TeamGames(DailyGames(schedule_call.feed, day), day, team)

\* the pitching matchup rating of team in game
StreamingRating(team, game) ==
    analyze_matchup_quality(schedule_analyzer[1], team, FALSE, OpponentIn(game),
                            game.ballpark).matchup_rating

\* the rated teams with a game on today + day whose pitching matchup rates
\* above 105
Streamable(day) ==
    { team \in ScheduledTeams :
          \E g \in Range(FeedGames(team, day)) :
              Gt(StreamingRating(team, g), IntNum(105)) }

\* the opportunities reported for today + day
ListedOn(day) == schedule_result[day + 1].v

\* C28: find_streaming_opportunities(days_ahead) lists under each of the
\* next days_ahead dates exactly the teams that play on that date with a
\* pitching matchup rating above 105, highest rating first, also for the
\* dates after the first.
C28_EveryDateListed ==
    StreamingFound =>
        \A day \in 0..(schedule_call.days_ahead - 1) :
            /\ { o.team : o \in Range(ListedOn(day)) } = Streamable(day)
            /\ \A i, j \in DOMAIN ListedOn(day) :
                   i < j => RatesAtLeast(ListedOn(day)[i].rating,
                                         ListedOn(day)[j].rating)

\* two dates were asked for; Pittsburgh hosts Miami tomorrow, both rate
\* above 105 there, and nothing is listed for tomorrow
C28_TomorrowEmpty ==
    /\ StreamingFound
    /\ schedule_call.days_ahead = 2
    /\ {"PIT", "MIA"} \subseteq Streamable(1)
    /\ ListedOn(1) = <<>>
    /\ ListedOn(0) # <<>>

\* the list of the first date is the streamable teams of that date, highest
\* rating first
TodayListed ==
    (StreamingFound /\ schedule_call.days_ahead >= 1) =>
        /\ { o.team : o \in Range(ListedOn(0)) } = Streamable(0)
        /\ \A i, j \in DOMAIN ListedOn(0) :
               i < j => RatesAtLeast(ListedOn(0)[i].rating, ListedOn(0)[j].rating)

(***************************************************************************)
(* Properties of _identify_categories                                      *)
(***************************************************************************)
IdentityColumns == {COL_player_id, COL_name, COL_team, COL_positions}

\* the categories registered, each with its type, name and column
Registered ==
    IF categories = <<>> THEN {}
    ELSE UNION { { [type |-> type, cat |-> e.k, col |-> e.v] :
                       e \in Range(DictGet(categories, type)) } :
                     type \in {"batting", "pitching"} }

\* the aliases of the category R
RunAliases == (CHOOSE c \in Range(batting_cats) : c.name = "R").aliases

\* the columns of the first team's table after the four identity columns
StatisticColumns == Drop(team_dfs[1].v.columns, 4)

\* C29: every registered category maps to a statistic column of the
\* flattened roster and never to player_id, name, team or positions; the
\* category R is registered only when a statistic column matches one of its
\* aliases.
C29_StatisticColumnsOnly ==
    /\ \A c \in Registered : c.col \notin IdentityColumns
    /\ (\E c \in Registered : c.cat = "R") =>
           \E i \in DOMAIN StatisticColumns, a \in Range(RunAliases) :
               Contains(a, Lower(StatisticColumns[i]))

\* the only statistic column is a_c, which matches no alias of any
\* category, and R is registered for player_id
C29_RunsFromPlayerId ==
    /\ team_dfs # <<>>
    /\ StatisticColumns = << StatKey(<<"a">>, <<"c">>) >>
    /\ Registered = { [type |-> "batting", cat |-> "R", col |-> COL_player_id] }

(***************************************************************************)
(* The ballpark labels of optimize_pitcher_starts                          *)
(***************************************************************************)
\* the ballpark-factor table and the ratings table of the last call
ParksInUse == ballpark_factors(matchup_call.use_mlb_api)

RatingsInUse == team_ratings(matchup_call.use_mlb_api)

\* the start the result schedules for name
StartFor(name) == DictGet(matchup_result.pitcher_schedule, name)

\* baseline x opponent_factor for the start of name
OpponentScore(name) ==
    Mul(ScoredPitchers[RosterIndex(name)].base_score,
        opponent_factor(StartFor(name).opponent, RatingsInUse))

\* the labels the two paths can give a start against a rated team
LabelsOf(abbr) == { abbr \o " home park", abbr \o " Park", "Home Park" }

=============================================================================
